---- MODULE Spec2Model ----
(***************************************************************************)
(* Model of the JMIX secure payload pipeline (aurabx/jmix-js):             *)
(*   JmixBuilder.packageToDirectory / packageEncryptedToDirectory /        *)
(*   decryptEnvelope, computePayloadHash, walkFiles, isLikelyDicom,        *)
(*   PayloadEncryptor.encryptTar and PayloadDecryptor.decryptToBuffer.     *)
(*                                                                         *)
(* Bytes and characters are their integer codes; a string is a sequence of *)
(* codes; a relative path is a sequence of segments (each a string); a     *)
(* directory tree is a function from the paths of its regular files to     *)
(* their bytes.  SHA-256 is modelled as an ideal (collision-free) hash: a  *)
(* digest is represented by the byte stream that was fed to the context.   *)
(* X25519, HKDF and AES-256-GCM are modelled symbolically.                 *)
(***************************************************************************)
EXTENDS Integers, Sequences, FiniteSets, TLC

\* ------------------------------------------------------------------------
\* Bounds of the model
\* ------------------------------------------------------------------------
MaxSrcFiles == 2      \* at most this many files in the source directory
MaxLabFiles == 2      \* at most this many files in a tree given to hashTree
MaxLabLen == 2        \* at most this many bytes in a file of such a tree

\* ------------------------------------------------------------------------
\* Characters, strings
\* ------------------------------------------------------------------------
NL == 10              \* '\n'
DOT == 46             \* '.'
SLASH == 47           \* '/'
MagicOffset == 128    \* offset of the DICM signature
MagicLen == 4         \* length of the buffer read at MagicOffset

s_DICM == <<68, 73, 67, 77>>                                   \* "DICM"
s_dcm == <<46, 100, 99, 109>>                                  \* ".dcm"
s_dicomExt == <<46, 100, 105, 99, 111, 109>>                   \* ".dicom"
s_payload == <<112, 97, 121, 108, 111, 97, 100>>               \* "payload"
s_dicom == <<100, 105, 99, 111, 109>>                          \* "dicom"
s_metadata == <<109, 101, 116, 97, 100, 97, 116, 97, 46, 106, 115, 111, 110>> \* "metadata.json"

\* String.prototype.toLowerCase on ASCII
ToLowerChar(c) == IF c >= 65 /\ c <= 90 THEN c + 32 ELSE c
ToLower(s) == [i \in 1..Len(s) |-> ToLowerChar(s[i])]

\* a.rel < b.rel : JavaScript string comparison, code unit by code unit
RECURSIVE LexLess(_, _)
LexLess(s, t) ==
  IF t = <<>> THEN FALSE
  ELSE IF s = <<>> THEN TRUE
  ELSE IF Head(s) < Head(t) THEN TRUE
  ELSE IF Head(s) > Head(t) THEN FALSE
  ELSE LexLess(Tail(s), Tail(t))

\* path.posix.join(...segments)
RECURSIVE PosixJoin(_)
PosixJoin(p) ==
  IF p = <<>> THEN <<>>
  ELSE IF Len(p) = 1 THEN p[1]
  ELSE p[1] \o <<SLASH>> \o PosixJoin(Tail(p))

\* path.extname: from the last '.' of the basename, "" when there is none
\* or when the basename starts with it
LastDot(name) ==
  LET dots == {i \in 1..Len(name) : name[i] = DOT}
  IN IF dots = {} THEN 0 ELSE CHOOSE i \in dots : \A j \in dots : j <= i

ExtName(p) ==
  LET name == p[Len(p)]
      d == LastDot(name)
  IN IF d <= 1 THEN <<>> ELSE SubSeq(name, d, Len(name))

\* fh.read(buf, 0, 4, 128) into Buffer.alloc(4): the bytes that exist at the
\* offset, the rest of the zero-filled buffer untouched
ReadAt(bytes, off, n) ==
  [i \in 1..n |-> IF off + i <= Len(bytes) THEN bytes[off + i] ELSE 0]

\* ------------------------------------------------------------------------
\* Directory trees
\* ------------------------------------------------------------------------
IsPrefix(d, p) == Len(p) > Len(d) /\ SubSeq(p, 1, Len(d)) = d

\* names returned by fs.readdir(dir)
Entries(tree, dir) == {p[Len(dir) + 1] : p \in {q \in DOMAIN tree : IsPrefix(dir, q)}}

EmptyTree == [p \in {} |-> <<>>]

\* tree with the file at path p (re)written / removed
WriteFile(tree, p, bytes) ==
  [q \in DOMAIN tree \cup {p} |-> IF q = p THEN bytes ELSE tree[q]]
RemoveFile(tree, p) == [q \in DOMAIN tree \ {p} |-> tree[q]]

\* all orders in which one fs.readdir call may return a set of names
RECURSIVE Perms(_)
Perms(S) ==
  IF S = {} THEN {<<>>}
  ELSE UNION {{<<x>> \o r : r \in Perms(S \ {x})} : x \in S}

\* walkFiles(root): the files under dir, in every order the directory
\* enumeration may produce (depth first, each directory in readdir order)
RECURSIVE WalkFiles(_, _)
RECURSIVE WalkEntries(_, _, _)
WalkEntries(tree, dir, names) ==
  IF names = <<>> THEN {<<>>}
  ELSE LET full == Append(dir, Head(names))
           first == IF full \in DOMAIN tree
                    THEN {<<full>>}                 \* entry.isFile()
                    ELSE WalkFiles(tree, full)      \* entry.isDirectory()
       IN {h \o t : h \in first, t \in WalkEntries(tree, dir, Tail(names))}

WalkFiles(tree, dir) ==
  UNION {WalkEntries(tree, dir, names) : names \in Perms(Entries(tree, dir))}

\* Array.prototype.sort with the comparator of computePayloadHash
RECURSIVE InsertSorted(_, _)
InsertSorted(sorted, p) ==
  IF sorted = <<>> THEN <<p>>
  ELSE IF LexLess(PosixJoin(p), PosixJoin(Head(sorted)))
       THEN <<p>> \o sorted
       ELSE <<Head(sorted)>> \o InsertSorted(Tail(sorted), p)

\* computePayloadHash without its sort: files hashed in enumeration order
SortRels_unsorted(all) == all

RECURSIVE SortRels(_)
SortRels(all) ==
  IF all = <<>> THEN <<>>
  ELSE InsertSorted(SortRels(SubSeq(all, 1, Len(all) - 1)), all[Len(all)])

\* the updates of the SHA-256 context: rel + '\n', then the file bytes
\* computePayloadHash feeding only the file bytes, not rel + '\n'
RECURSIVE HashStream_bytesOnly(_, _)
HashStream_bytesOnly(tree, rels) ==
  IF rels = <<>> THEN <<>>
  ELSE tree[Head(rels)] \o HashStream_bytesOnly(tree, Tail(rels))

RECURSIVE HashStream(_, _)
HashStream(tree, rels) ==
  IF rels = <<>> THEN <<>>
  ELSE PosixJoin(Head(rels)) \o <<NL>> \o tree[Head(rels)]
       \o HashStream(tree, Tail(rels))

\* `sha256:${digestHex}` of an ideal hash
Sha256Label(stream) == [alg |-> "sha256", of |-> stream]

\* computePayloadHash(payloadDir), for one enumeration `all` of walkFiles
ComputePayloadHash(tree, all) == Sha256Label(HashStream(tree, SortRels(all)))

\* ------------------------------------------------------------------------
\* State
\* ------------------------------------------------------------------------
VARIABLES
  labTree,      \* a payload tree handed to computePayloadHash
  labScan,      \* the enumeration walkFiles produced for it
  labDigest,    \* the digest computed from it
  labTree2,     \* the tree of the second call
  labScan2,     \* the enumeration of the second call, when it is a repeated one
  labDigest2,   \* the digest of the second call
  labOp         \* what separates the two calls

labVars == <<labTree, labScan, labDigest, labTree2, labScan2, labDigest2, labOp>>

VARIABLES
  srcDir,       \* dicomPath: relative path |-> [bytes, readable]
  config,       \* the caller's config object; config.security is the object
                \* buildManifest puts into envelope.manifest.security
  env,          \* the envelope directory <envelope_id>.JMIX: each of its
                \* entries is {} (absent) or {content}
  mode,         \* "plain": packageToDirectory, "encrypted":
                \* packageEncryptedToDirectory
  sealPc,       \* position of the packaging call
  sealTodo,     \* allInputFiles not yet visited by the copy loop
  sealMeta,     \* JSON.stringify(envelope.metadata, null, 2)
  sealKey,      \* recipientPublicKeyBase64
  sealHash,     \* payloadHash
  sealEnc,      \* { ciphertext, result } of encryptTar
  sealErr,      \* why the packaging call failed
  sealAt,       \* the position at which it failed
  sealOps,      \* the primitives encryptTar called, in order
  sealedTree,   \* the payload tree over which payloadHash was computed
  tamper,       \* what was altered in the envelope directory afterwards
  openPc,       \* position of the decryptEnvelope call
  openKey,      \* recipientPrivateKeyBase64
  openManifest, \* manifest parsed by decryptEnvelope
  openBuf,      \* tarBuf returned by decryptToBuffer
  openComputed, \* digest recomputed by decryptEnvelope
  openErr,      \* why decryptEnvelope failed
  openOps       \* the files decryptEnvelope read and the primitives
                \* decryptToBuffer called, in order

sealVars == <<mode, sealPc, sealTodo, sealMeta, sealKey, sealHash, sealEnc,
              sealErr, sealAt, sealOps, sealedTree>>
openVars == <<openPc, openKey, openManifest, openBuf, openComputed, openErr,
              openOps>>
pipeVars == <<srcDir, config, env, sealVars, tamper, openVars>>

VARIABLES
  cCfg,         \* what two concurrent invocations share as input: the source
                \* directory, the schema files, whether the config is valid
  cCall,        \* per invocation: operation, envelope directory, position,
                \* locals
  cDisk,        \* the envelope directories: name |-> directory
  cCache,       \* SchemaValidator.schemaCache: schema name |-> object
  cAjv,         \* the schema objects the Ajv instance has compiled
  cRng,         \* how many times encryptTar drew from the random source
  cOverlap      \* an invocation began while the other was under way

concVars == <<cCfg, cCall, cDisk, cCache, cAjv, cRng, cOverlap>>

vars == <<labVars, pipeVars, concVars>>

\* ------------------------------------------------------------------------
\* computePayloadHash as a pure function: trees, repeated calls, edits
\* ------------------------------------------------------------------------
LabBytes == {98, NL}                                    \* 'b', '\n'
LabPaths == {<< <<97>> >>, << <<98>> >>, << <<100>>, <<97>> >>}   \* a, b, d/a

RECURSIVE SeqsUpTo(_, _)
SeqsUpTo(S, n) ==
  IF n = 0 THEN {<<>>}
  ELSE LET shorter == SeqsUpTo(S, n - 1)
       IN shorter \cup {Append(q, x) : q \in shorter, x \in S}

LabContents == SeqsUpTo(LabBytes, MaxLabLen)

LabTrees ==
  UNION {[D -> LabContents] :
           D \in {E \in SUBSET LabPaths : Cardinality(E) <= MaxLabFiles}}

NoDigest == [alg |-> "none", of |-> <<>>]

LabInit ==
  /\ labTree \in LabTrees
  /\ labScan = <<>>
  /\ labDigest = NoDigest
  /\ labTree2 = EmptyTree
  /\ labScan2 = <<>>
  /\ labDigest2 = NoDigest
  /\ labOp = "new"

\* first call of computePayloadHash
LabHash ==
  /\ labOp = "new"
  /\ \E all \in WalkFiles(labTree, <<>>) :
       /\ labScan' = all
       /\ labDigest' = ComputePayloadHash(labTree, all)
  /\ labOp' = "hashed"
  /\ UNCHANGED <<labTree, labTree2, labScan2, labDigest2, pipeVars, concVars>>

\* second call of computePayloadHash, on tree2
LabSecond(tree2, op) ==
  /\ labOp = "hashed"
  /\ labTree2' = tree2
  /\ \E all \in WalkFiles(tree2, <<>>) :
       /\ labScan2' = IF op = "rehash" THEN all ELSE <<>>
       /\ labDigest2' = ComputePayloadHash(tree2, all)
  /\ labOp' = op
  /\ UNCHANGED <<labTree, labScan, labDigest, pipeVars, concVars>>

\* repeated call on the same tree, the directories enumerated anew
LabRehash == LabSecond(labTree, "rehash")

\* one byte of one file changes
LabChangeByte ==
  \E p \in DOMAIN labTree : \E i \in 1..Len(labTree[p]) :
    \E b \in LabBytes \ {labTree[p][i]} :
      LabSecond(WriteFile(labTree, p, [labTree[p] EXCEPT ![i] = b]), "change")

\* a path is added
LabAddPath ==
  \E p \in LabPaths \ DOMAIN labTree : \E c \in LabContents :
    LabSecond(WriteFile(labTree, p, c), "add")

\* a path is removed
LabRemovePath ==
  \E p \in DOMAIN labTree : LabSecond(RemoveFile(labTree, p), "remove")

\* a path is renamed
LabRenamePath ==
  \E p \in DOMAIN labTree : \E q \in LabPaths \ DOMAIN labTree :
    LabSecond(WriteFile(RemoveFile(labTree, p), q, labTree[p]), "rename")

\* payload trees of the files a and b, each empty or holding "b\n"
LabRivals ==
  UNION {[D -> {<<>>, <<98, NL>>}] : D \in SUBSET {<< <<97>> >>, << <<98>> >>}}

\* computePayloadHash on another payload tree
LabOtherTree ==
  \E tree2 \in LabRivals \ {labTree} : LabSecond(tree2, "other")

LabNext ==
  \/ LabHash
  \/ LabRehash
  \/ LabChangeByte
  \/ LabAddPath
  \/ LabRemovePath
  \/ LabRenamePath
  \/ LabOtherTree


\* ------------------------------------------------------------------------
\* Optional values: {} is absent, {x} is present
\* ------------------------------------------------------------------------
None == {}
Some(x) == {x}
The(o) == CHOOSE x \in o : TRUE

\* ------------------------------------------------------------------------
\* Cryptography (symbolic)
\* ------------------------------------------------------------------------
KeyLen == 32          \* Curve25519 keys
IvLen == 12           \* AES-GCM initialization vector
TagLen == 16          \* AES-GCM authentication tag

\* nacl.box.keyPair(): the key pair named id.  A public key is its point and
\* the most significant bit of its last byte (0 in every generated key).
KeyPair(id) ==
  [publicKey |-> [len |-> KeyLen, pt |-> id, msb |-> 0],
   secretKey |-> [len |-> KeyLen, sk |-> id]]

\* a key of the wrong length
ShortKey == [len |-> KeyLen - 1, pt |-> "short", msb |-> 0, sk |-> "short"]

\* Buffer.toString('base64') / Buffer.from(s, 'base64')
Base64Encode(v) == [enc |-> "base64", chars |-> 4 * ((v.len + 2) \div 3), raw |-> v]
Base64Decode(b) == b.raw

\* nacl.scalarMult(n, p): X25519.  Commutative in the two key pairs, and the
\* most significant bit of the point is masked away before use.
ScalarMult(secret, point) == {secret.sk, point.pt}

\* hkdfSync('sha256', shared, salt, info, 32)
HkdfInfo == "JMIX-Payload-Encryption"
Hkdf(shared) == [ikm |-> shared, salt |-> <<>>, info |-> HkdfInfo, len |-> KeyLen]

\* createCipheriv('aes-256-gcm', key, iv): update + final, and getAuthTag
GcmEncrypt(key, iv, plaintext) ==
  [key |-> key, iv |-> iv, pt |-> plaintext, flipped |-> FALSE]
GcmTag(key, iv, ciphertext) ==
  [len |-> TagLen, mac |-> <<key, iv, ciphertext>>, flipped |-> FALSE]

\* encryptTar generating the ephemeral key pair before it looks at the
\* length of the recipient key
EncryptTar_lateCheck(tarData, recipientPublicKeyBase64, ephId, ivId) ==
  LET recipientPub == Base64Decode(recipientPublicKeyBase64)
      eph == KeyPair(ephId)
      shared == ScalarMult(eph.secretKey, recipientPub)
      key == Hkdf(shared)
      iv == [len |-> IvLen, v |-> ivId]
      ciphertext == GcmEncrypt(key, iv, tarData)
      auth == GcmTag(key, iv, ciphertext)
  IN IF recipientPub.len # KeyLen
     THEN [ok |-> FALSE, err |-> "InvalidKey", ops |-> <<"keyPair">>]
     ELSE [ok |-> TRUE,
           ops |-> <<"keyPair", "scalarMult", "hkdf", "randomBytes", "cipher">>,
           ciphertext |-> ciphertext,
           result |-> [ephemeral_public_key |-> Base64Encode(eph.publicKey),
                       iv |-> Base64Encode(iv),
                       auth_tag |-> Base64Encode(auth)]]

\* encryptTar handing the ephemeral secret key out in place of the public one
EncryptTar_secretOut(tarData, recipientPublicKeyBase64, ephId, ivId) ==
  LET recipientPub == Base64Decode(recipientPublicKeyBase64)
      eph == KeyPair(ephId)
      shared == ScalarMult(eph.secretKey, recipientPub)
      key == Hkdf(shared)
      iv == [len |-> IvLen, v |-> ivId]
      ciphertext == GcmEncrypt(key, iv, tarData)
      auth == GcmTag(key, iv, ciphertext)
  IN IF recipientPub.len # KeyLen
     THEN [ok |-> FALSE, err |-> "InvalidKey", ops |-> <<>>]
     ELSE [ok |-> TRUE,
           ops |-> <<"keyPair", "scalarMult", "hkdf", "randomBytes", "cipher">>,
           ciphertext |-> ciphertext,
           result |-> [ephemeral_public_key |-> Base64Encode(eph.secretKey),
                       iv |-> Base64Encode(iv),
                       auth_tag |-> Base64Encode(auth)]]

\* PayloadEncryptor.encryptTar(tarData, recipientPublicKeyBase64) with the
\* ephemeral key pair and the IV its random source yields; ops lists the
\* primitives called before it returned or threw
EncryptTar(tarData, recipientPublicKeyBase64, ephId, ivId) ==
  LET recipientPub == Base64Decode(recipientPublicKeyBase64)
      eph == KeyPair(ephId)
      shared == ScalarMult(eph.secretKey, recipientPub)
      key == Hkdf(shared)
      iv == [len |-> IvLen, v |-> ivId]
      ciphertext == GcmEncrypt(key, iv, tarData)
      auth == GcmTag(key, iv, ciphertext)
  IN IF recipientPub.len # KeyLen
     THEN [ok |-> FALSE, err |-> "InvalidKey", ops |-> <<>>]
     ELSE [ok |-> TRUE,
           ops |-> <<"keyPair", "scalarMult", "hkdf", "randomBytes", "cipher">>,
           ciphertext |-> ciphertext,
           result |-> [ephemeral_public_key |-> Base64Encode(eph.publicKey),
                       iv |-> Base64Encode(iv),
                       auth_tag |-> Base64Encode(auth)]]

\* decryptToBuffer trusting the ciphertext: the tag is never compared
DecryptToBuffer_noTagCheck(ciphertext, ephPubB64, ivB64, tagB64, recipientPrivB64) ==
  [ok |-> TRUE, plaintext |-> ciphertext.pt,
   ops |-> <<"scalarMult", "hkdf", "decipher">>]

\* decryptToBuffer agreeing on the key before it looks at the lengths
DecryptToBuffer_lateCheck(ciphertext, ephPubB64, ivB64, tagB64, recipientPrivB64) ==
  LET ephPub == Base64Decode(ephPubB64)
      iv == Base64Decode(ivB64)
      tag == Base64Decode(tagB64)
      recipPriv == Base64Decode(recipientPrivB64)
      shared == ScalarMult(recipPriv, ephPub)
      key == Hkdf(shared)
  IN IF ephPub.len # KeyLen
     THEN [ok |-> FALSE, err |-> "InvalidKey", ops |-> <<"scalarMult", "hkdf">>]
     ELSE IF recipPriv.len # KeyLen
     THEN [ok |-> FALSE, err |-> "InvalidKey", ops |-> <<"scalarMult", "hkdf">>]
     ELSE IF iv.len # IvLen
     THEN [ok |-> FALSE, err |-> "InvalidMaterial", ops |-> <<"scalarMult", "hkdf">>]
     ELSE IF tag.len # TagLen
     THEN [ok |-> FALSE, err |-> "InvalidMaterial", ops |-> <<"scalarMult", "hkdf">>]
     ELSE IF tag # GcmTag(key, iv, ciphertext)
          THEN [ok |-> FALSE, err |-> "AuthenticationFailed",
                ops |-> <<"scalarMult", "hkdf", "decipher">>]
          ELSE [ok |-> TRUE, plaintext |-> ciphertext.pt,
                ops |-> <<"scalarMult", "hkdf", "decipher">>]

\* PayloadDecryptor.decryptToBuffer; ops lists the primitives called before
\* it returned or threw
DecryptToBuffer(ciphertext, ephPubB64, ivB64, tagB64, recipientPrivB64) ==
  LET ephPub == Base64Decode(ephPubB64)
      iv == Base64Decode(ivB64)
      tag == Base64Decode(tagB64)
      recipPriv == Base64Decode(recipientPrivB64)
      shared == ScalarMult(recipPriv, ephPub)
      key == Hkdf(shared)
  IN IF ephPub.len # KeyLen
     THEN [ok |-> FALSE, err |-> "InvalidKey", ops |-> <<>>]
     ELSE IF recipPriv.len # KeyLen
     THEN [ok |-> FALSE, err |-> "InvalidKey", ops |-> <<>>]
     ELSE IF iv.len # IvLen
     THEN [ok |-> FALSE, err |-> "InvalidMaterial", ops |-> <<>>]
     ELSE IF tag.len # TagLen
     THEN [ok |-> FALSE, err |-> "InvalidMaterial", ops |-> <<>>]
     ELSE IF tag # GcmTag(key, iv, ciphertext)      \* decipher.final() throws
          THEN [ok |-> FALSE, err |-> "AuthenticationFailed",
                ops |-> <<"scalarMult", "hkdf", "decipher">>]
          ELSE [ok |-> TRUE, plaintext |-> ciphertext.pt,
                ops |-> <<"scalarMult", "hkdf", "decipher">>]

\* ------------------------------------------------------------------------
\* Archiving
\* ------------------------------------------------------------------------
\* tar.c archiving only the first file it meets
TarCreate_firstOnly(tree, all) ==
  [i \in 1..(IF all = <<>> THEN 0 ELSE 1) |->
     [name |-> <<s_payload>> \o all[i], data |-> tree[all[i]]]]

\* tar.c({cwd: packageRoot, file}, ['payload']): one entry per file, named
\* relative to cwd, in the order `all` of the directory enumeration
TarCreate(tree, all) ==
  [i \in 1..Len(all) |->
     [name |-> <<s_payload>> \o all[i], data |-> tree[all[i]]]]

\* tar.x leaving payload/ as it finds it
TarExtract_nothing(tree, blob) == tree

\* tar.x({cwd: envelopeDir, file}): every entry written at cwd/name, over
\* what is already there; `tree` is what cwd/payload holds
RECURSIVE TarExtract(_, _)
TarExtract(tree, blob) ==
  IF blob = <<>> THEN tree
  ELSE TarExtract(WriteFile(tree, Tail(Head(blob).name), Head(blob).data),
                  Tail(blob))

\* ------------------------------------------------------------------------
\* Source directories
\* ------------------------------------------------------------------------
n_a == <<97>>                                                  \* "a"
n_bdcm == <<98, 46, 100, 99, 109>>                             \* "b.dcm"
n_notes == <<110, 111, 116, 101, 115, 46, 116, 120, 116>>      \* "notes.txt"
n_cDICOM == <<99, 46, 68, 73, 67, 79, 77>>                     \* "c.DICOM"
n_raw == <<114, 97, 119>>                                      \* "raw"
n_cut == <<99, 117, 116>>                                      \* "cut"
n_udcm == <<117, 46, 100, 99, 109>>                            \* "u.dcm"

p_abdcm == <<n_a, n_bdcm>>                                     \* a/b.dcm
p_notes == <<n_notes>>

Bytes100 == [i \in 1..100 |-> 1 + (i % 7)]                     \* 100 bytes
Text == <<104, 105, NL>>                                       \* "hi\n"
\* 128 bytes of preamble, then "DICM"
WithMagic == [i \in 1..(MagicOffset + MagicLen) |->
                IF i > MagicOffset THEN s_DICM[i - MagicOffset] ELSE 0]
\* the same file cut after "DI"
CutMagic == SubSeq(WithMagic, 1, MagicOffset + 2)

File(bytes, readable) == [bytes |-> bytes, readable |-> readable]

\* the files a source directory is made of: path |-> possible files
SrcFiles ==
  [p \in {p_abdcm, p_notes, <<n_cDICOM>>, <<n_raw>>, <<n_cut>>, <<n_udcm>>} |->
     IF p = p_abdcm THEN {File(Bytes100, TRUE)}
     ELSE IF p = p_notes THEN {File(Text, TRUE)}
     ELSE IF p = <<n_cDICOM>> THEN {File(Text, TRUE)}
     ELSE IF p = <<n_raw>> THEN {File(WithMagic, TRUE), File(WithMagic, FALSE)}
     ELSE IF p = <<n_cut>> THEN {File(CutMagic, TRUE)}
     ELSE {File(Text, FALSE)}]

SrcTrees ==
  UNION {{t \in [D -> UNION {SrcFiles[p] : p \in D}] :
            \A p \in D : t[p] \in SrcFiles[p]} :
           D \in {E \in SUBSET DOMAIN SrcFiles : Cardinality(E) <= MaxSrcFiles}}

\* the two documents JSON.stringify(envelope.metadata, null, 2) may be
MetaDocs == {<<123, NL, 125>>, <<123, NL, 32, 125>>}           \* "{\n}", "{\n }"

\* isLikelyDicom deciding on the extension alone
IsLikelyDicom_extOnly(p, file) ==
  LET ext == ToLower(ExtName(p))
  IN ext = s_dcm \/ ext = s_dicomExt

\* isLikelyDicom(filePath): extension, or DICM at offset 128; a file that
\* cannot be opened or read is not DICOM
IsLikelyDicom(p, file) ==
  LET ext == ToLower(ExtName(p))
  IN IF ext = s_dcm \/ ext = s_dicomExt THEN TRUE
     ELSE IF ~file.readable THEN FALSE                         \* catch
     ELSE ReadAt(file.bytes, MagicOffset, MagicLen) = s_DICM

\* ------------------------------------------------------------------------
\* The envelope directory
\* ------------------------------------------------------------------------
EmptyDir ==
  [payload |-> None,        \* payload/            : the tree below it
   tmpTar |-> None,         \* payload.tmp.tar     : archive
   encrypted |-> None,      \* payload.encrypted   : ciphertext
   manifest |-> None,       \* manifest.json       : document
   audit |-> None,          \* audit.json          : document
   decTar |-> None,         \* payload.decrypted.tar : archive
   scratch |-> None]        \* the scratch directory verifyPayloadHash opens
                            \* a sealed payload into (not below the envelope
                            \* directory): the tree below scratch/payload

p_metadata == <<s_metadata>>                                   \* metadata.json
DicomDest(rel) == <<s_dicom>> \o rel                           \* dicom/<rel>

\* the config the caller hands to the packaging: of config.security, the two
\* optional fields the packaging sets in the manifest
CallerConfig == [security |-> [payload_hash |-> None, encryption |-> None]]

\* Object.assign(envelope.manifest.security, update): the object that
\* config.security refers to is the one updated
AssignSecurity_inPlace(shared, update) ==
  LET security == [shared EXCEPT !.payload_hash = update.payload_hash,
                                 !.encryption = update.encryption]
  IN [shared |-> security, manifest |-> security]

\* envelope.manifest.security = { ...envelope.manifest.security, ...update }:
\* a new object for the manifest; the object it shared with config.security
\* is left as it was
AssignSecurity(shared, update) ==
  [shared |-> shared,
   manifest |-> [shared EXCEPT !.payload_hash = update.payload_hash,
                               !.encryption = update.encryption]]

\* envelope.manifest as written by packageToDirectory
PlainManifest(hash) == [payload_hash |-> Some(hash), encryption |-> None]

\* envelope.manifest with iv and auth_tag taken one for the other
EncryptedManifest_swapped(hash, result) ==
  [payload_hash |-> Some(hash),
   encryption |-> Some([algorithm |-> "AES-256-GCM",
                        ephemeral_public_key |-> Some(result.ephemeral_public_key),
                        iv |-> Some(result.auth_tag),
                        auth_tag |-> Some(result.iv)])]

\* envelope.manifest as written by packageEncryptedToDirectory
EncryptedManifest(hash, result) ==
  [payload_hash |-> Some(hash),
   encryption |-> Some([algorithm |-> "AES-256-GCM",
                        ephemeral_public_key |-> Some(result.ephemeral_public_key),
                        iv |-> Some(result.iv),
                        auth_tag |-> Some(result.auth_tag)])]

AuditDoc == "envelope_created"

RecipientIds == {"R1", "R2"}
NoKey == Base64Encode(ShortKey)
NoEnc == [ok |-> FALSE, err |-> "none", ops |-> <<>>]

\* ------------------------------------------------------------------------
\* packageToDirectory / packageEncryptedToDirectory, one step per await
\* ------------------------------------------------------------------------
MaxAlterations == 2   \* at most this many alterations of a sealed envelope

LabOff ==
  /\ labTree = EmptyTree
  /\ labScan = <<>>
  /\ labDigest = NoDigest
  /\ labTree2 = EmptyTree
  /\ labScan2 = <<>>
  /\ labDigest2 = NoDigest
  /\ labOp = "off"

PipeInit ==
  /\ srcDir \in SrcTrees
  /\ config = CallerConfig
  /\ env = EmptyDir
  /\ mode = "none"
  /\ sealPc = "idle"
  /\ sealTodo = <<>>
  /\ sealMeta = <<>>
  /\ sealKey = NoKey
  /\ sealHash = NoDigest
  /\ sealEnc = NoEnc
  /\ sealErr = "none"
  /\ sealAt = "none"
  /\ sealOps = <<>>
  /\ sealedTree = EmptyTree
  /\ tamper = {}
  /\ openPc = "idle"
  /\ openKey = NoKey
  /\ openManifest = None
  /\ openBuf = <<>>
  /\ openComputed = NoDigest
  /\ openErr = "none"
  /\ openOps = <<>>

\* no second invocation: the pipeline is studied one call at a time
ConcOff ==
  /\ cCfg = [src |-> EmptyTree, missing |-> FALSE, schemas |-> "absent",
             schemaPath |-> "schemas", valid |-> TRUE]
  /\ cCall = [k \in {} |-> 0]
  /\ cDisk = [d \in {} |-> 0]
  /\ cCache = [n \in {} |-> 0]
  /\ cAjv = {}
  /\ cRng = 0
  /\ cOverlap = FALSE

Init == PipeInit /\ LabOff /\ ConcOff

SealKeys == {Base64Encode(KeyPair(id).publicKey) : id \in RecipientIds}
              \cup {Base64Encode(ShortKey)}

SealFail(err) ==
  /\ sealPc' = "failed"
  /\ sealErr' = err
  /\ sealAt' = sealPc

\* the caller invokes packageToDirectory(dicomPath, config, outputRoot)
PackagePlain ==
  /\ sealPc = "idle"
  /\ mode' = "plain"
  /\ sealPc' = "build"
  /\ UNCHANGED <<srcDir, config, env, sealTodo, sealMeta, sealKey, sealHash,
                 sealEnc, sealErr, sealAt, sealedTree, sealOps, tamper,
                 openVars, labVars, concVars>>

\* the caller invokes packageEncryptedToDirectory(dicomPath, config,
\* outputRoot, recipientPublicKeyBase64)
PackageEncrypted ==
  /\ sealPc = "idle"
  /\ mode' = "encrypted"
  /\ sealKey' \in SealKeys
  /\ sealPc' = "build"
  /\ UNCHANGED <<srcDir, config, env, sealTodo, sealMeta, sealHash, sealEnc,
                 sealErr, sealAt, sealedTree, sealOps, tamper,
                 openVars, labVars, concVars>>

\* buildFromDicom resolves with the envelope
BuildFromDicom ==
  /\ sealPc = "build"
  /\ sealMeta' \in MetaDocs
  /\ sealPc' = "mkdir"
  /\ UNCHANGED <<srcDir, config, env, mode, sealTodo, sealKey, sealHash,
                 sealEnc, sealErr, sealAt, sealedTree, sealOps, tamper,
                 openVars, labVars, concVars>>

\* buildFromDicom rejects (scan or validation failed): JmixError
BuildFromDicomFails ==
  /\ sealPc = "build"
  /\ SealFail("JmixError")
  /\ UNCHANGED <<srcDir, config, env, mode, sealTodo, sealMeta, sealKey,
                 sealHash, sealEnc, sealedTree, sealOps, tamper,
                 openVars, labVars, concVars>>

\* fs.mkdir(dicomOutDir, { recursive: true })
MkdirDicomOut ==
  /\ sealPc = "mkdir"
  /\ env' = [env EXCEPT !.payload = Some(EmptyTree)]
  /\ sealPc' = "walk"
  /\ UNCHANGED <<srcDir, config, mode, sealTodo, sealMeta, sealKey, sealHash,
                 sealEnc, sealErr, sealAt, sealedTree, sealOps, tamper,
                 openVars, labVars, concVars>>

\* allInputFiles = await this.walkFiles(dicomPath)
WalkInput ==
  /\ sealPc = "walk"
  /\ sealTodo' \in WalkFiles(srcDir, <<>>)
  /\ sealPc' = "copy"
  /\ UNCHANGED <<srcDir, config, env, mode, sealMeta, sealKey, sealHash,
                 sealEnc, sealErr, sealAt, sealedTree, sealOps, tamper,
                 openVars, labVars, concVars>>

\* one iteration of the copy loop
CopyNext ==
  /\ sealPc = "copy"
  /\ sealTodo # <<>>
  /\ LET rel == Head(sealTodo)
         file == srcDir[rel]
     IN IF ~IsLikelyDicom(rel, file)
        THEN /\ sealTodo' = Tail(sealTodo)                     \* continue
             /\ UNCHANGED <<env, sealPc, sealErr, sealAt>>
        ELSE IF ~file.readable
        THEN /\ sealPc' = "failed"                             \* copyFile throws
             /\ sealErr' = "FileSystemError"
             /\ sealAt' = "copyFile"
             /\ UNCHANGED <<env, sealTodo>>
        ELSE /\ env' = [env EXCEPT !.payload =
                          Some(WriteFile(The(env.payload), DicomDest(rel), file.bytes))]
             /\ sealTodo' = Tail(sealTodo)
             /\ UNCHANGED <<sealPc, sealErr, sealAt>>
  /\ UNCHANGED <<srcDir, config, mode, sealMeta, sealKey, sealHash, sealEnc,
                 sealedTree, sealOps, tamper,
                 openVars, labVars, concVars>>

\* payload/metadata.json is written
WriteMetadata ==
  /\ sealPc = "copy"
  /\ sealTodo = <<>>
  /\ env' = [env EXCEPT !.payload =
               Some(WriteFile(The(env.payload), p_metadata, sealMeta))]
  /\ sealPc' = "hash"
  /\ UNCHANGED <<srcDir, config, mode, sealTodo, sealMeta, sealKey, sealHash,
                 sealEnc, sealErr, sealAt, sealedTree, sealOps, tamper,
                 openVars, labVars, concVars>>

\* payloadHash = await this.computePayloadHash(payloadDir)
HashPayload ==
  /\ sealPc = "hash"
  /\ \E all \in WalkFiles(The(env.payload), <<>>) :
       sealHash' = ComputePayloadHash(The(env.payload), all)
  /\ sealedTree' = The(env.payload)
  /\ sealPc' = IF mode = "plain" THEN "manifest" ELSE "tar"
  /\ UNCHANGED <<srcDir, config, env, mode, sealTodo, sealMeta, sealKey,
                 sealEnc, sealErr, sealAt, sealOps, tamper,
                 openVars, labVars, concVars>>

\* tar.c(...) writes payload.tmp.tar
TarPayload ==
  /\ sealPc = "tar"
  /\ \E all \in WalkFiles(The(env.payload), <<>>) :
       env' = [env EXCEPT !.tmpTar = Some(TarCreate(The(env.payload), all))]
  /\ sealPc' = "encrypt"
  /\ UNCHANGED <<srcDir, config, mode, sealTodo, sealMeta, sealKey, sealHash,
                 sealEnc, sealErr, sealAt, sealedTree, sealOps, tamper,
                 openVars, labVars, concVars>>

\* tarBuf is read and encryptTar(tarBuf, recipientPublicKeyBase64) runs
EncryptTarBuf ==
  /\ sealPc = "encrypt"
  /\ LET r == EncryptTar(The(env.tmpTar), sealKey, "E1", "iv1")
     IN /\ sealOps' = r.ops
        /\ IF r.ok
           THEN /\ sealEnc' = r
                /\ sealPc' = "writeEnc"
                /\ UNCHANGED <<sealErr, sealAt>>
           ELSE /\ SealFail(r.err)
                /\ UNCHANGED sealEnc
  /\ UNCHANGED <<srcDir, config, env, mode, sealTodo, sealMeta, sealKey,
                 sealHash, sealedTree, tamper, openVars, labVars, concVars>>

\* the cleanup reached without payload.encrypted having been written
WriteEncrypted_skipped ==
  /\ sealPc = "writeEnc"
  /\ sealPc' = "rmTar"
  /\ UNCHANGED <<srcDir, config, env, mode, sealTodo, sealMeta, sealKey,
                 sealHash, sealEnc, sealErr, sealAt, sealedTree, sealOps, tamper,
                 openVars, labVars, concVars>>

\* fs.writeFile(encryptedPath, ciphertext)
WriteEncrypted ==
  /\ sealPc = "writeEnc"
  /\ env' = [env EXCEPT !.encrypted = Some(sealEnc.ciphertext)]
  /\ sealPc' = "rmTar"
  /\ UNCHANGED <<srcDir, config, mode, sealTodo, sealMeta, sealKey, sealHash,
                 sealEnc, sealErr, sealAt, sealedTree, sealOps, tamper,
                 openVars, labVars, concVars>>

\* fs.rm(tmpTarPath, { force: true })
RemoveTmpTar ==
  /\ sealPc = "rmTar"
  /\ env' = [env EXCEPT !.tmpTar = None]
  /\ sealPc' = "rmPayload"
  /\ UNCHANGED <<srcDir, config, mode, sealTodo, sealMeta, sealKey, sealHash,
                 sealEnc, sealErr, sealAt, sealedTree, sealOps, tamper,
                 openVars, labVars, concVars>>

\* the cleanup leaving the plaintext payload/ in place
RemovePayloadDir_kept ==
  /\ sealPc = "rmPayload"
  /\ sealPc' = "manifest"
  /\ UNCHANGED <<srcDir, config, env, mode, sealTodo, sealMeta, sealKey,
                 sealHash, sealEnc, sealErr, sealAt, sealedTree, sealOps, tamper,
                 openVars, labVars, concVars>>

\* fs.rm(payloadDir, { recursive: true, force: true })
RemovePayloadDir ==
  /\ sealPc = "rmPayload"
  /\ env' = [env EXCEPT !.payload = None]
  /\ sealPc' = "manifest"
  /\ UNCHANGED <<srcDir, config, mode, sealTodo, sealMeta, sealKey, sealHash,
                 sealEnc, sealErr, sealAt, sealedTree, sealOps, tamper,
                 openVars, labVars, concVars>>

\* envelope.manifest.security is updated and manifest.json written
WriteManifest ==
  /\ sealPc = "manifest"
  /\ LET r == AssignSecurity(config.security,
                             IF mode = "plain"
                             THEN PlainManifest(sealHash)
                             ELSE EncryptedManifest(sealHash, sealEnc.result))
     IN /\ config' = [config EXCEPT !.security = r.shared]
        /\ env' = [env EXCEPT !.manifest = Some(r.manifest)]
  /\ sealPc' = "audit"
  /\ UNCHANGED <<srcDir, mode, sealTodo, sealMeta, sealKey, sealHash, sealEnc,
                 sealErr, sealAt, sealedTree, sealOps, tamper,
                 openVars, labVars, concVars>>

\* audit.json is written and the call returns packageRoot
WriteAudit ==
  /\ sealPc = "audit"
  /\ env' = [env EXCEPT !.audit = Some(AuditDoc)]
  /\ sealPc' = "done"
  /\ UNCHANGED <<srcDir, config, mode, sealTodo, sealMeta, sealKey, sealHash,
                 sealEnc, sealErr, sealAt, sealedTree, sealOps, tamper,
                 openVars, labVars, concVars>>

\* a file-system call of the packaging rejects; nothing catches it
SealFsSteps == {"mkdir", "walk", "copy", "hash", "tar", "encrypt", "writeEnc",
                "rmTar", "rmPayload", "manifest", "audit"}
SealFsFails ==
  /\ sealPc \in SealFsSteps
  /\ SealFail("FileSystemError")
  /\ UNCHANGED <<srcDir, config, env, mode, sealTodo, sealMeta, sealKey,
                 sealHash, sealEnc, sealedTree, sealOps, tamper,
                 openVars, labVars, concVars>>

\* ------------------------------------------------------------------------
\* The sealed envelope directory in other hands: alterations made to it
\* between the packaging and decryptEnvelope
\* ------------------------------------------------------------------------
CanAlter(what) ==
  /\ mode = "encrypted"
  /\ sealPc = "done"
  /\ openPc = "idle"
  /\ what \notin tamper
  /\ Cardinality(tamper) < MaxAlterations

Altered(what) ==
  /\ tamper' = tamper \cup {what}
  /\ UNCHANGED <<srcDir, config, sealVars, openVars, labVars, concVars>>

\* the alterations of one field of security.encryption: one per envelope
IvAlterations == {"iv", "short_iv", "no_iv"}
TagAlterations == {"auth_tag", "short_auth_tag", "no_auth_tag"}
EphemeralKeyAlterations ==
  {"ephemeral_public_key", "ephemeral_public_key_msb",
   "short_ephemeral_public_key", "no_ephemeral_public_key"}

CanAlterField(what, alterations) ==
  /\ CanAlter(what)
  /\ tamper \cap alterations = {}
  /\ "no_encryption" \notin tamper

\* manifest.json with security.encryption changed by f
AlterEncryption(field, value) ==
  LET m == The(env.manifest)
      e == The(m.encryption)
  IN env' = [env EXCEPT !.manifest =
               Some([m EXCEPT !.encryption = Some([e EXCEPT ![field] = value])])]

\* a bit of payload.encrypted is flipped
FlipCiphertextBit ==
  /\ CanAlter("ciphertext")
  /\ env' = [env EXCEPT !.encrypted = Some([The(env.encrypted) EXCEPT !.flipped = TRUE])]
  /\ Altered("ciphertext")

\* a bit of the stored iv is flipped
FlipIvBit ==
  /\ CanAlterField("iv", IvAlterations)
  /\ LET b == The(The(The(env.manifest).encryption).iv)
     IN AlterEncryption("iv",
          Some(Base64Encode([Base64Decode(b) EXCEPT !.v = "iv1-altered"])))
  /\ Altered("iv")

\* a bit of the stored auth_tag is flipped
FlipTagBit ==
  /\ CanAlterField("auth_tag", TagAlterations)
  /\ LET b == The(The(The(env.manifest).encryption).auth_tag)
     IN AlterEncryption("auth_tag",
          Some(Base64Encode([Base64Decode(b) EXCEPT !.flipped = TRUE])))
  /\ Altered("auth_tag")

\* a bit of the stored ephemeral_public_key is flipped: one of the 255 bits
\* of the point
FlipEphemeralKeyBit ==
  /\ CanAlterField("ephemeral_public_key", EphemeralKeyAlterations)
  /\ LET b == The(The(The(env.manifest).encryption).ephemeral_public_key)
     IN AlterEncryption("ephemeral_public_key",
          Some(Base64Encode([Base64Decode(b) EXCEPT !.pt = "E1-altered"])))
  /\ Altered("ephemeral_public_key")

\* a bit of the stored ephemeral_public_key is flipped: the most significant
\* bit of the last byte
FlipEphemeralKeyMsb ==
  /\ CanAlterField("ephemeral_public_key_msb", EphemeralKeyAlterations)
  /\ LET b == The(The(The(env.manifest).encryption).ephemeral_public_key)
     IN AlterEncryption("ephemeral_public_key",
          Some(Base64Encode([Base64Decode(b) EXCEPT !.msb = 1 - @])))
  /\ Altered("ephemeral_public_key_msb")

\* the stored value of a field of security.encryption loses its last byte
TruncateField(field, what, alterations) ==
  /\ CanAlterField(what, alterations)
  /\ LET b == The(The(The(env.manifest).encryption)[field])
     IN AlterEncryption(field,
          Some(Base64Encode([Base64Decode(b) EXCEPT !.len = @ - 1])))
  /\ Altered(what)

TruncateIv == TruncateField("iv", "short_iv", IvAlterations)
TruncateTag == TruncateField("auth_tag", "short_auth_tag", TagAlterations)
TruncateEphemeralKey ==
  TruncateField("ephemeral_public_key", "short_ephemeral_public_key",
                EphemeralKeyAlterations)

\* a field of security.encryption is taken out of manifest.json
DropField(field, what, alterations) ==
  /\ CanAlterField(what, alterations)
  /\ AlterEncryption(field, None)
  /\ Altered(what)

DropIv == DropField("iv", "no_iv", IvAlterations)
DropTag == DropField("auth_tag", "no_auth_tag", TagAlterations)
DropEphemeralKey ==
  DropField("ephemeral_public_key", "no_ephemeral_public_key",
            EphemeralKeyAlterations)

\* security.encryption is taken out of manifest.json
DropEncryption ==
  /\ CanAlter("no_encryption")
  /\ tamper \cap (IvAlterations \cup TagAlterations \cup EphemeralKeyAlterations) = {}
  /\ env' = [env EXCEPT !.manifest =
               Some([The(env.manifest) EXCEPT !.encryption = None])]
  /\ Altered("no_encryption")

\* security.payload_hash is replaced by another digest
ReplacePayloadHash ==
  /\ CanAlter("payload_hash")
  /\ "no_payload_hash" \notin tamper
  /\ env' = [env EXCEPT !.manifest =
               Some([The(env.manifest) EXCEPT !.payload_hash = Some(Sha256Label(<<0>>))])]
  /\ Altered("payload_hash")

\* security.payload_hash (optional in Security) is dropped from the manifest
DropPayloadHash ==
  /\ CanAlter("no_payload_hash")
  /\ "payload_hash" \notin tamper
  /\ env' = [env EXCEPT !.manifest =
               Some([The(env.manifest) EXCEPT !.payload_hash = None])]
  /\ Altered("no_payload_hash")

\* ------------------------------------------------------------------------
\* decryptEnvelope, one step per await
\* ------------------------------------------------------------------------
OpenKeys == {Base64Encode(KeyPair(id).secretKey) : id \in RecipientIds}
              \cup {Base64Encode(ShortKey)}

OpenFail(err) ==
  /\ openPc' = "failed"
  /\ openErr' = err

\* the caller invokes decryptEnvelope(envelopeDir, recipientPrivateKeyBase64)
\* on the directory a packaging call returned
DecryptEnvelope ==
  /\ sealPc = "done"
  /\ openPc = "idle"
  /\ openKey' \in OpenKeys
  /\ openPc' = "manifest"
  /\ UNCHANGED <<srcDir, config, env, sealVars, tamper, openManifest, openBuf,
                 openComputed, openErr, openOps, labVars, concVars>>

\* manifest.json read and payload.encrypted read before security.encryption
\* is looked at
ReadManifest_readsFirst ==
  /\ openPc = "manifest"
  /\ LET manifest == The(env.manifest)
         enc == manifest.encryption
     IN IF \/ enc = None
           \/ The(enc).ephemeral_public_key = None
           \/ The(enc).iv = None
           \/ The(enc).auth_tag = None
        THEN /\ OpenFail("MissingEncryptionMetadata")
             /\ openOps' = openOps \o <<"readManifest", "readEncrypted">>
             /\ UNCHANGED openManifest
        ELSE /\ openManifest' = Some(manifest)
             /\ openPc' = "decrypt"
             /\ openOps' = Append(openOps, "readManifest")
             /\ UNCHANGED openErr
  /\ UNCHANGED <<srcDir, config, env, sealVars, tamper, openKey, openBuf,
                 openComputed, labVars, concVars>>

\* manifest.json is read and parsed, security.encryption looked up
ReadManifest ==
  /\ openPc = "manifest"
  /\ openOps' = Append(openOps, "readManifest")
  /\ LET manifest == The(env.manifest)
         enc == manifest.encryption
     IN IF \/ enc = None
           \/ The(enc).ephemeral_public_key = None
           \/ The(enc).iv = None
           \/ The(enc).auth_tag = None
        THEN /\ OpenFail("MissingEncryptionMetadata")
             /\ UNCHANGED openManifest
        ELSE /\ openManifest' = Some(manifest)
             /\ openPc' = "decrypt"
             /\ UNCHANGED openErr
  /\ UNCHANGED <<srcDir, config, env, sealVars, tamper, openKey, openBuf,
                 openComputed, labVars, concVars>>

\* payload.encrypted is read and decryptToBuffer runs
DecryptCiphertext ==
  /\ openPc = "decrypt"
  /\ LET enc == The(The(openManifest).encryption)
         r == DecryptToBuffer(The(env.encrypted), The(enc.ephemeral_public_key),
                              The(enc.iv), The(enc.auth_tag), openKey)
     IN /\ openOps' = Append(openOps, "readEncrypted") \o r.ops
        /\ IF r.ok
           THEN /\ openBuf' = r.plaintext
                /\ openPc' = "writeTar"
                /\ UNCHANGED openErr
           ELSE /\ OpenFail(r.err)
                /\ UNCHANGED openBuf
  /\ UNCHANGED <<srcDir, config, env, sealVars, tamper, openKey, openManifest,
                 openComputed, labVars, concVars>>

\* fs.writeFile(tmpTar, tarBuf)
WriteDecryptedTar ==
  /\ openPc = "writeTar"
  /\ env' = [env EXCEPT !.decTar = Some(openBuf)]
  /\ openPc' = "mkdir"
  /\ UNCHANGED <<srcDir, config, sealVars, tamper, openKey, openManifest,
                 openBuf, openComputed, openErr, openOps, labVars, concVars>>

\* fs.mkdir(payloadDir, { recursive: true })
MkdirPayload ==
  /\ openPc = "mkdir"
  /\ env' = [env EXCEPT !.payload = IF @ = None THEN Some(EmptyTree) ELSE @]
  /\ openPc' = "extract"
  /\ UNCHANGED <<srcDir, config, sealVars, tamper, openKey, openManifest,
                 openBuf, openComputed, openErr, openOps, labVars, concVars>>

\* tar.x({ cwd: envelopeDir, file: tmpTar })
ExtractTar ==
  /\ openPc = "extract"
  /\ env' = [env EXCEPT !.payload = Some(TarExtract(The(@), The(env.decTar)))]
  /\ openPc' = "rmTar"
  /\ UNCHANGED <<srcDir, config, sealVars, tamper, openKey, openManifest,
                 openBuf, openComputed, openErr, openOps, labVars, concVars>>

\* fs.rm(tmpTar, { force: true })
RemoveDecryptedTar ==
  /\ openPc = "rmTar"
  /\ env' = [env EXCEPT !.decTar = None]
  /\ openPc' = "verify"
  /\ UNCHANGED <<srcDir, config, sealVars, tamper, openKey, openManifest,
                 openBuf, openComputed, openErr, openOps, labVars, concVars>>

\* decryptEnvelope returning without looking at the recomputed digest
VerifyPayloadHash_unchecked ==
  /\ openPc = "verify"
  /\ openPc' = "done"
  /\ UNCHANGED <<srcDir, config, env, sealVars, tamper, openKey, openManifest,
                 openBuf, openComputed, openErr, openOps, labVars, concVars>>

\* if (manifest?.security?.payload_hash) { recompute, compare }; return
VerifyPayloadHash ==
  /\ openPc = "verify"
  /\ IF The(openManifest).payload_hash # None
     THEN \E all \in WalkFiles(The(env.payload), <<>>) :
            LET computed == ComputePayloadHash(The(env.payload), all)
            IN /\ openComputed' = computed
               /\ IF computed # The(The(openManifest).payload_hash)
                  THEN OpenFail("IntegrityViolation")
                  ELSE openPc' = "done" /\ UNCHANGED openErr
     ELSE /\ openPc' = "done"
          /\ UNCHANGED <<openComputed, openErr>>
  /\ UNCHANGED <<srcDir, config, env, sealVars, tamper, openKey, openManifest,
                 openBuf, openOps, labVars, concVars>>

\* a file-system call of decryptEnvelope rejects; nothing catches it
OpenFsSteps == {"manifest", "decrypt", "writeTar", "mkdir", "extract", "rmTar",
                "verify"}
OpenFsFails ==
  /\ openPc \in OpenFsSteps
  /\ OpenFail("FileSystemError")
  /\ UNCHANGED <<srcDir, config, env, sealVars, tamper, openKey, openManifest,
                 openBuf, openComputed, openOps, labVars, concVars>>

Next ==
  \/ PackagePlain
  \/ PackageEncrypted
  \/ BuildFromDicom
  \/ BuildFromDicomFails
  \/ MkdirDicomOut
  \/ WalkInput
  \/ CopyNext
  \/ WriteMetadata
  \/ HashPayload
  \/ TarPayload
  \/ EncryptTarBuf
  \/ WriteEncrypted
  \/ RemoveTmpTar
  \/ RemovePayloadDir
  \/ WriteManifest
  \/ WriteAudit
  \/ SealFsFails
  \/ FlipCiphertextBit
  \/ FlipIvBit
  \/ FlipTagBit
  \/ FlipEphemeralKeyBit
  \/ FlipEphemeralKeyMsb
  \/ TruncateIv
  \/ TruncateTag
  \/ TruncateEphemeralKey
  \/ DropIv
  \/ DropTag
  \/ DropEphemeralKey
  \/ DropEncryption
  \/ ReplacePayloadHash
  \/ DropPayloadHash
  \/ DecryptEnvelope
  \/ ReadManifest
  \/ DecryptCiphertext
  \/ WriteDecryptedTar
  \/ MkdirPayload
  \/ ExtractTar
  \/ RemoveDecryptedTar
  \/ VerifyPayloadHash
  \/ OpenFsFails

Spec == Init /\ [][Next]_vars

\* the pipeline at rest while computePayloadHash is studied on its own
PipeOff ==
  /\ srcDir = EmptyTree
  /\ config = CallerConfig
  /\ env = EmptyDir
  /\ mode = "none"
  /\ sealPc = "idle"
  /\ sealTodo = <<>>
  /\ sealMeta = <<>>
  /\ sealKey = NoKey
  /\ sealHash = NoDigest
  /\ sealEnc = NoEnc
  /\ sealErr = "none"
  /\ sealAt = "none"
  /\ sealOps = <<>>
  /\ sealedTree = EmptyTree
  /\ tamper = {}
  /\ openPc = "idle"
  /\ openKey = NoKey
  /\ openManifest = None
  /\ openBuf = <<>>
  /\ openComputed = NoDigest
  /\ openErr = "none"
  /\ openOps = <<>>

InitHash == LabInit /\ PipeOff /\ ConcOff

SpecHash == InitHash /\ [][LabNext]_vars

\* ------------------------------------------------------------------------
\* Two invocations on one JmixBuilder instance
\* ------------------------------------------------------------------------
Callers == {1, 2}

\* validateEnvelope: validateManifest, validateMetadata, validateAudit
SchemaNames == {"manifest", "metadata", "audit"}

\* Date.now() and Math.random() as generateStudyUID may find them
Clock == {1, 2}

\* the source directories: c.DICOM (taken for its extension, no image in
\* it), and notes.txt alone (no DICOM file at all)
ConcSources ==
  {[p \in {<<n_cDICOM>>} |-> File(Text, TRUE)],
   [p \in {p_notes} |-> File(Text, TRUE)]}

\* what the two invocations are given: the source directory (dicomPath may
\* name no directory), the schema files under schemaPath (none; schemas
\* without $id; schemas with $id; files that cannot be read or parsed;
\* schemas ajv.compile rejects), the name of the schema directory, and a
\* config whose manifest is valid or not.  Schemas and validity vary for the
\* source with a DICOM file; the other source comes with no schemas.
ConcConfigs ==
  {cfg \in [src : ConcSources, missing : BOOLEAN,
            schemas : {"absent", "plain", "withId", "unloadable",
                       "uncompilable"},
            schemaPath : {"schemas", "validation failed"},
            valid : BOOLEAN] :
     /\ (\A q \in DOMAIN cfg.src : ~IsLikelyDicom(q, cfg.src[q]))
          => (cfg.schemas = "absent" /\ cfg.valid)
     /\ cfg.missing => (\A q \in DOMAIN cfg.src : ~IsLikelyDicom(q, cfg.src[q]))
     /\ cfg.schemaPath # "schemas" => cfg.schemas = "unloadable"}

\* the ValidationError loadSchema throws when fs.readFile or JSON.parse
\* fails: its message carries the path of the schema file
LoadError(schemaPath, n) ==
  [name |-> "ValidationError",
   message |-> <<"Failed to load schema from ", schemaPath, "/", n,
                 ".schema.json">>]

\* the test in the catch of validate: the error is rethrown when it is a
\* ValidationError whose message includes 'validation failed'
IsValidationFailure(error) ==
  /\ error.name = "ValidationError"
  /\ \E i \in 1..Len(error.message) : error.message[i] = "validation failed"

\* JSON.stringify(envelope.metadata, null, 2): with no DICOM file found the
\* study uid is generated from the clock and the random source; with files
\* none of which parses as an image there is no study uid
MetadataDoc(src, now) ==
  IF \A q \in DOMAIN src : ~IsLikelyDicom(q, src[q])
  THEN <<123, NL, 48 + now, NL, 125>>
  ELSE <<123, NL, 125>>

\* the key pair and the iv of the n-th encryptTar call: the random source
\* never repeats
RandomKey_repeating(n) == "E1"

RandomKey(n) == <<"E1", "E2">>[n]
RandomIv(n) == <<"iv1", "iv2">>[n]

\* payload/ as packageEncryptedToDirectory assembles it from the source
PayloadOf(src, meta) ==
  [p \in {DicomDest(q) : q \in {r \in DOMAIN src : IsLikelyDicom(r, src[r])}}
           \cup {p_metadata} |->
     IF p = p_metadata THEN meta ELSE src[Tail(p)].bytes]

\* the envelope directory a completed packageEncryptedToDirectory leaves
SealedDir(tree, all, recipientPublicKeyBase64, ephId, ivId) ==
  LET r == EncryptTar(TarCreate(tree, all), recipientPublicKeyBase64, ephId, ivId)
  IN [EmptyDir EXCEPT
        !.encrypted = Some(r.ciphertext),
        !.manifest = Some(EncryptedManifest(
                            ComputePayloadHash(tree, all), r.result)),
        !.audit = Some(AuditDoc)]

\* the payload tree of the envelopes that are there from the start
OldTree ==
  WriteFile(WriteFile(EmptyTree, DicomDest(<<n_cDICOM>>), Text),
            p_metadata, <<123, NL, 125>>)

OldScan == <<DicomDest(<<n_cDICOM>>), p_metadata>>

ConcKey == Base64Encode(KeyPair("R1").publicKey)
ConcPriv == Base64Encode(KeyPair("R1").secretKey)

\* envelope directories: A and B hold sealed envelopes, N1 and N2 are the
\* directories `${envelope_id}.JMIX` the two packaging calls create
EnvelopeDir(op, k) ==
  IF op = "seal" THEN <<"N1", "N2">>[k] ELSE <<"A", "B">>[k]

IdleCall(op, dir) ==
  [op |-> op, dir |-> dir, pc |-> "idle", err |-> "none",
   task |-> [n \in SchemaNames |-> "idle"],
   meta |-> <<>>, todo |-> <<>>, tree |-> EmptyTree, hash |-> NoDigest,
   enc |-> NoEnc, manifest |-> None, buf |-> <<>>, computed |-> NoDigest]

ConcInit ==
  /\ cCfg \in ConcConfigs
  /\ \E op1 \in {"seal", "open"}, op2 \in {"seal", "open"}, same \in BOOLEAN :
       /\ same => (op1 = "open" /\ op2 = "open")
       /\ cCall = [k \in Callers |->
                     IF k = 1 THEN IdleCall(op1, EnvelopeDir(op1, 1))
                     ELSE IdleCall(op2, IF same THEN EnvelopeDir(op1, 1)
                                        ELSE EnvelopeDir(op2, 2))]
  /\ cDisk = [d \in {"A", "B", "N1", "N2"} |->
                IF d = "A" THEN SealedDir(OldTree, OldScan, ConcKey, "EA", "ivA")
                ELSE IF d = "B" THEN SealedDir(OldTree, OldScan, ConcKey, "EB", "ivB")
                ELSE EmptyDir]
  /\ cCache = [n \in SchemaNames |-> None]
  /\ cAjv = {}
  /\ cRng = 0
  /\ cOverlap = FALSE

Running(k) == cCall[k].pc \notin {"idle", "done", "failed"}
Finished(k) == cCall[k].pc \in {"done", "failed"}

\* an invocation is called
CallBegins(k, op, pc) ==
  /\ cCall[k].op = op
  /\ cCall[k].pc = "idle"
  /\ cCall' = [cCall EXCEPT ![k].pc = pc]
  /\ cOverlap' = (cOverlap \/ \E j \in Callers \ {k} : Running(j))
  /\ UNCHANGED <<labVars, pipeVars, cCfg, cDisk, cCache, cAjv, cRng>>

CallPackageEncrypted(k) == CallBegins(k, "seal", "build")
CallDecryptEnvelope(k) == CallBegins(k, "open", "manifest")

\* buildFromDicom going on to build and validate the envelope although
\* dicomPath names no directory
BuildEnvelope_scanUnchecked(k) ==
  /\ cCall[k].pc = "build"
  /\ \E now \in Clock :
       cCall' = [cCall EXCEPT ![k].pc = "validate",
                              ![k].meta = MetadataDoc(cCfg.src, now),
                              ![k].task = [n \in SchemaNames |-> "access"]]
  /\ UNCHANGED <<labVars, pipeVars, cCfg, cDisk, cCache, cAjv, cRng, cOverlap>>

\* buildFromDicom: processDicomFolder resolves, the envelope is built and
\* validateEnvelope starts its three validations; when dicomPath names no
\* directory, readdir rejects and buildFromDicom throws JmixError
BuildEnvelope(k) ==
  /\ cCall[k].pc = "build"
  /\ IF cCfg.missing
     THEN cCall' = [cCall EXCEPT ![k].pc = "failed", ![k].err = "JmixError"]
     ELSE \E now \in Clock :
            cCall' = [cCall EXCEPT ![k].pc = "validate",
                                   ![k].meta = MetadataDoc(cCfg.src, now),
                                   ![k].task = [n \in SchemaNames |-> "access"]]
  /\ UNCHANGED <<labVars, pipeVars, cCfg, cDisk, cCache, cAjv, cRng, cOverlap>>

\* ajv.compile(schema) throws: the schema carries an $id under which the
\* instance holds another object
AjvThrows(ajv, schema, withId) ==
  /\ withId
  /\ schema \notin ajv
  /\ \E other \in ajv : other[1] = schema[1]

\* validate(n) with the schema loadSchema returned: ajv.compile(schema) and
\* validate(data); an error other than 'validation failed' is logged and the
\* validation skipped
CompileAndValidate(k, n, schema) ==
  IF \/ AjvThrows(cAjv, schema, cCfg.schemas = "withId")
     \/ cCfg.schemas = "uncompilable"
  THEN /\ cCall' = [cCall EXCEPT ![k].task[n] = "skipped"]
       /\ UNCHANGED cAjv
  ELSE /\ cAjv' = cAjv \cup {schema}
       /\ cCall' = [cCall EXCEPT ![k].task[n] =
                      IF /\ n = "manifest" /\ ~cCfg.valid
                         /\ IsValidationFailure(
                              [name |-> "ValidationError",
                               message |-> <<n, " ", "validation failed">>])
                      THEN "invalid" ELSE "ok"]

\* validate(n): fs.access has settled.  Without the schema file the
\* validation is skipped; loadSchema returns the object schemaCache holds,
\* or starts fs.readFile
ValidateAccess(k, n) ==
  /\ cCall[k].task[n] = "access"
  /\ IF cCfg.schemas = "absent"
     THEN /\ cCall' = [cCall EXCEPT ![k].task[n] = "skipped"]
          /\ UNCHANGED cAjv
     ELSE IF cCache[n] # None
     THEN CompileAndValidate(k, n, The(cCache[n]))
     ELSE /\ cCall' = [cCall EXCEPT ![k].task[n] = "read"]
          /\ UNCHANGED cAjv
  /\ UNCHANGED <<labVars, pipeVars, cCfg, cDisk, cCache, cRng, cOverlap>>

\* loadSchema: fs.readFile has resolved; JSON.parse makes a new object, which
\* is put into schemaCache and returned to validate(n).  When the file cannot
\* be read or parsed loadSchema throws, and the catch of validate skips the
\* validation or rethrows
ValidateRead(k, n) ==
  /\ cCall[k].task[n] = "read"
  /\ IF cCfg.schemas = "unloadable"
     THEN /\ cCall' = [cCall EXCEPT ![k].task[n] =
                         IF IsValidationFailure(LoadError(cCfg.schemaPath, n))
                         THEN "threw" ELSE "skipped"]
          /\ UNCHANGED <<cCache, cAjv>>
     ELSE /\ cCache' = [cCache EXCEPT ![n] = Some(<<n, k>>)]
          /\ CompileAndValidate(k, n, <<n, k>>)
  /\ UNCHANGED <<labVars, pipeVars, cCfg, cDisk, cRng, cOverlap>>

\* Promise.all of validateEnvelope has settled: buildFromDicom returns the
\* envelope, or throws JmixError on 'validation failed'
BuildSettles(k) ==
  /\ cCall[k].pc = "validate"
  /\ \A n \in SchemaNames :
       cCall[k].task[n] \in {"ok", "skipped", "invalid", "threw"}
  /\ cCall' =
       IF \E n \in SchemaNames : cCall[k].task[n] \in {"invalid", "threw"}
       THEN [cCall EXCEPT ![k].pc = "failed", ![k].err = "JmixError"]
       ELSE [cCall EXCEPT ![k].pc = "mkdir"]
  /\ UNCHANGED <<labVars, pipeVars, cCfg, cDisk, cCache, cAjv, cRng, cOverlap>>

\* packageEncryptedToDirectory after buildFromDicom: its next await
PackageStep(k) ==
  LET c == cCall[k]
      d == c.dir
      e == cDisk[d]
  IN /\ c.op = "seal"
     /\ \/ /\ c.pc = "mkdir"
           /\ cDisk' = [cDisk EXCEPT ![d].payload = Some(EmptyTree)]
           /\ cCall' = [cCall EXCEPT ![k].pc = "walk"]
           /\ UNCHANGED cRng
        \/ /\ c.pc = "walk"
           /\ \E all \in WalkFiles(cCfg.src, <<>>) :
                cCall' = [cCall EXCEPT ![k].pc = "copy", ![k].todo = all]
           /\ UNCHANGED <<cDisk, cRng>>
        \/ /\ c.pc = "copy"
           /\ c.todo # <<>>
           /\ LET rel == Head(c.todo)
              IN cDisk' =
                   IF IsLikelyDicom(rel, cCfg.src[rel])
                   THEN [cDisk EXCEPT ![d].payload =
                           Some(WriteFile(The(e.payload), DicomDest(rel),
                                          cCfg.src[rel].bytes))]
                   ELSE cDisk
           /\ cCall' = [cCall EXCEPT ![k].todo = Tail(c.todo)]
           /\ UNCHANGED cRng
        \/ /\ c.pc = "copy"
           /\ c.todo = <<>>
           /\ cDisk' = [cDisk EXCEPT ![d].payload =
                          Some(WriteFile(The(e.payload), p_metadata, c.meta))]
           /\ cCall' = [cCall EXCEPT ![k].pc = "hash"]
           /\ UNCHANGED cRng
        \/ /\ c.pc = "hash"
           /\ \E all \in WalkFiles(The(e.payload), <<>>) :
                cCall' = [cCall EXCEPT
                            ![k].pc = "tar",
                            ![k].tree = The(e.payload),
                            ![k].hash = ComputePayloadHash(The(e.payload), all)]
           /\ UNCHANGED <<cDisk, cRng>>
        \/ /\ c.pc = "tar"
           /\ \E all \in WalkFiles(The(e.payload), <<>>) :
                cDisk' = [cDisk EXCEPT ![d].tmpTar =
                            Some(TarCreate(The(e.payload), all))]
           /\ cCall' = [cCall EXCEPT ![k].pc = "encrypt"]
           /\ UNCHANGED cRng
        \/ /\ c.pc = "encrypt"
           /\ cRng' = cRng + 1
           /\ cCall' = [cCall EXCEPT
                          ![k].pc = "writeEnc",
                          ![k].enc = EncryptTar(The(e.tmpTar), ConcKey,
                                                RandomKey(cRng + 1),
                                                RandomIv(cRng + 1))]
           /\ UNCHANGED cDisk
        \/ /\ c.pc = "writeEnc"
           /\ cDisk' = [cDisk EXCEPT ![d].encrypted = Some(c.enc.ciphertext)]
           /\ cCall' = [cCall EXCEPT ![k].pc = "rmTar"]
           /\ UNCHANGED cRng
        \/ /\ c.pc = "rmTar"
           /\ cDisk' = [cDisk EXCEPT ![d].tmpTar = None]
           /\ cCall' = [cCall EXCEPT ![k].pc = "rmPayload"]
           /\ UNCHANGED cRng
        \/ /\ c.pc = "rmPayload"
           /\ cDisk' = [cDisk EXCEPT ![d].payload = None]
           /\ cCall' = [cCall EXCEPT ![k].pc = "manifest"]
           /\ UNCHANGED cRng
        \/ /\ c.pc = "manifest"
           /\ cDisk' = [cDisk EXCEPT ![d].manifest =
                          Some(EncryptedManifest(c.hash, c.enc.result))]
           /\ cCall' = [cCall EXCEPT ![k].pc = "audit"]
           /\ UNCHANGED cRng
        \/ /\ c.pc = "audit"
           /\ cDisk' = [cDisk EXCEPT ![d].audit = Some(AuditDoc)]
           /\ cCall' = [cCall EXCEPT ![k].pc = "done"]
           /\ UNCHANGED cRng
     /\ UNCHANGED <<labVars, pipeVars, cCfg, cCache, cAjv, cOverlap>>

\* payload.decrypted.tar left where it was written
RemoveDecrypted_kept(dir) == dir

\* fs.rm(tmpTar, { force: true }) of decryptEnvelope
RemoveDecrypted(dir) == [dir EXCEPT !.decTar = None]

\* decryptEnvelope: its next await
DecryptStep(k) ==
  LET c == cCall[k]
      d == c.dir
      e == cDisk[d]
  IN /\ c.op = "open"
     /\ \/ /\ c.pc = "manifest"
           /\ cCall' = [cCall EXCEPT ![k].pc = "decrypt",
                                     ![k].manifest = e.manifest]
           /\ UNCHANGED cDisk
        \/ /\ c.pc = "decrypt"
           /\ LET enc == The(The(c.manifest).encryption)
                  r == DecryptToBuffer(The(e.encrypted),
                                       The(enc.ephemeral_public_key),
                                       The(enc.iv), The(enc.auth_tag), ConcPriv)
              IN cCall' = IF r.ok
                          THEN [cCall EXCEPT ![k].pc = "writeTar",
                                             ![k].buf = r.plaintext]
                          ELSE [cCall EXCEPT ![k].pc = "failed", ![k].err = r.err]
           /\ UNCHANGED cDisk
        \/ /\ c.pc = "writeTar"
           /\ cDisk' = [cDisk EXCEPT ![d].decTar = Some(c.buf)]
           /\ cCall' = [cCall EXCEPT ![k].pc = "mkdir"]
        \/ /\ c.pc = "mkdir"
           /\ cDisk' = [cDisk EXCEPT ![d].payload =
                          IF @ = None THEN Some(EmptyTree) ELSE @]
           /\ cCall' = [cCall EXCEPT ![k].pc = "extract"]
        \/ /\ c.pc = "extract"
           /\ e.decTar # None
           /\ cDisk' = [cDisk EXCEPT ![d].payload =
                          Some(TarExtract(The(@), The(e.decTar)))]
           /\ cCall' = [cCall EXCEPT ![k].pc = "rmTar"]
        \/ /\ c.pc = "extract"
           /\ e.decTar = None                       \* tar.x rejects: ENOENT
           /\ cCall' = [cCall EXCEPT ![k].pc = "failed", ![k].err = "ENOENT"]
           /\ UNCHANGED cDisk
        \/ /\ c.pc = "rmTar"
           /\ cDisk' = [cDisk EXCEPT ![d] = RemoveDecrypted(@)]
           /\ cCall' = [cCall EXCEPT ![k].pc = "verify"]
        \/ /\ c.pc = "verify"
           /\ \E all \in WalkFiles(The(e.payload), <<>>) :
                LET computed == ComputePayloadHash(The(e.payload), all)
                IN cCall' =
                     IF The(c.manifest).payload_hash = None
                     THEN [cCall EXCEPT ![k].pc = "done"]
                     ELSE IF computed # The(The(c.manifest).payload_hash)
                     THEN [cCall EXCEPT ![k].pc = "failed",
                                        ![k].computed = computed,
                                        ![k].err = "IntegrityViolation"]
                     ELSE [cCall EXCEPT ![k].pc = "done",
                                        ![k].computed = computed]
           /\ UNCHANGED cDisk
     /\ UNCHANGED <<labVars, pipeVars, cCfg, cCache, cAjv, cRng, cOverlap>>

ConcNext ==
  \E k \in Callers :
    \/ CallPackageEncrypted(k)
    \/ CallDecryptEnvelope(k)
    \/ BuildEnvelope(k)
    \/ \E n \in SchemaNames : ValidateAccess(k, n)
    \/ \E n \in SchemaNames : ValidateRead(k, n)
    \/ BuildSettles(k)
    \/ PackageStep(k)
    \/ DecryptStep(k)

InitConc == ConcInit /\ PipeOff /\ LabOff

SpecConc == InitConc /\ [][ConcNext]_vars

\* ------------------------------------------------------------------------
\* A sealed envelope directory in the hands of its recipient: decryptEnvelope
\* and verifyPayloadHash on envelopes that were sealed earlier
\* ------------------------------------------------------------------------
\* what happened to the envelope since it was sealed: nothing, a bit of
\* payload.encrypted flipped, security.payload_hash replaced, or a manifest
\* that carries security.encryption and no payload_hash (decryptEnvelope
\* checks the digest only if (manifest?.security?.payload_hash))
OpenAlterations == {"none", "ciphertext", "payload_hash", "no_hash"}

\* a payload/ directory that is in the envelope directory before the call:
\* a file the archive does not hold and an older metadata.json
StalePayload ==
  WriteFile(WriteFile(EmptyTree, p_notes, Text), p_metadata, <<123, 125>>)

\* the state a completed packageEncryptedToDirectory leaves, the alteration
\* made and the payload/ directory found there
InitOpen ==
  /\ \E src \in ConcSources, meta \in MetaDocs, alt \in OpenAlterations,
        stale \in {None, Some(StalePayload)} :
       LET tree == PayloadOf(src, meta)
       IN \E all \in WalkFiles(tree, <<>>) :
            LET r == EncryptTar(TarCreate(tree, all), ConcKey, "E1", "iv1")
                dir == SealedDir(tree, all, ConcKey, "E1", "iv1")
            IN /\ srcDir = src
               /\ config = CallerConfig
               /\ sealMeta = meta
               /\ sealedTree = tree
               /\ sealHash = ComputePayloadHash(tree, all)
               /\ sealEnc = r
               /\ sealOps = r.ops
               /\ tamper = IF alt = "none" THEN {} ELSE {alt}
               /\ env = [dir EXCEPT
                    !.payload = stale,
                    !.encrypted =
                      IF alt = "ciphertext"
                      THEN Some([The(@) EXCEPT !.flipped = TRUE]) ELSE @,
                    !.manifest =
                      IF alt = "payload_hash"
                      THEN Some([The(@) EXCEPT
                                   !.payload_hash = Some(Sha256Label(<<0>>))])
                      ELSE IF alt = "no_hash"
                      THEN Some([The(@) EXCEPT !.payload_hash = None])
                      ELSE @]
  /\ mode = "encrypted"
  /\ sealPc = "done"
  /\ sealTodo = <<>>
  /\ sealKey = ConcKey
  /\ sealErr = "none"
  /\ sealAt = "none"
  /\ openPc = "idle"
  /\ openKey = NoKey
  /\ openManifest = None
  /\ openBuf = <<>>
  /\ openComputed = NoDigest
  /\ openErr = "none"
  /\ openOps = <<>>
  /\ LabOff
  /\ ConcOff

\* the caller invokes verifyPayloadHash(envelopeDir,
\* { recipientPrivateKeyBase64 })
VerifyHashCall ==
  /\ sealPc = "done"
  /\ openPc = "idle"
  /\ openKey' \in OpenKeys
  /\ openPc' = "verifyOpen"
  /\ UNCHANGED <<srcDir, config, env, sealVars, tamper, openManifest, openBuf,
                 openComputed, openErr, openOps, labVars, concVars>>

\* manifest.json is read; a plaintext payload/ is hashed where it is; a
\* sealed payload is decrypted with the private key and unpacked into the
\* scratch directory
VerifyHashOpen ==
  /\ openPc = "verifyOpen"
  /\ openManifest' = env.manifest
  /\ IF env.payload # None
     THEN /\ \E all \in WalkFiles(The(env.payload), <<>>) :
               openComputed' = ComputePayloadHash(The(env.payload), all)
          /\ openPc' = "verified"
          /\ UNCHANGED <<env, openBuf, openErr>>
     ELSE LET enc == The(The(env.manifest).encryption)
              r == DecryptToBuffer(The(env.encrypted),
                                   The(enc.ephemeral_public_key),
                                   The(enc.iv), The(enc.auth_tag), openKey)
          IN IF r.ok
             THEN /\ openBuf' = r.plaintext
                  /\ env' = [env EXCEPT
                       !.scratch = Some(TarExtract(EmptyTree, r.plaintext))]
                  /\ openPc' = "verifyHash"
                  /\ UNCHANGED <<openComputed, openErr>>
             ELSE /\ openPc' = "verifyFailed"
                  /\ openErr' = r.err
                  /\ UNCHANGED <<env, openBuf, openComputed>>
  /\ UNCHANGED <<srcDir, config, sealVars, tamper, openKey, openOps, labVars,
                 concVars>>

\* hashing the scratch payload and throwing past the removal of it
VerifyHashCompute_throws ==
  /\ openPc = "verifyHash"
  /\ \/ \E all \in WalkFiles(The(env.scratch), <<>>) :
          /\ openComputed' = ComputePayloadHash(The(env.scratch), all)
          /\ openPc' = "verifyDiscard"
          /\ UNCHANGED openErr
     \/ /\ openPc' = "verifyFailed"
        /\ openErr' = "FileSystemError"
        /\ UNCHANGED openComputed
  /\ UNCHANGED <<srcDir, config, env, sealVars, tamper, openKey, openManifest,
                 openBuf, openOps, labVars, concVars>>

\* the scratch payload is hashed, or reading it fails; either way the
\* removal of the scratch directory comes next
VerifyHashCompute ==
  /\ openPc = "verifyHash"
  /\ \/ \E all \in WalkFiles(The(env.scratch), <<>>) :
          /\ openComputed' = ComputePayloadHash(The(env.scratch), all)
          /\ UNCHANGED openErr
     \/ /\ openErr' = "FileSystemError"
        /\ UNCHANGED openComputed
  /\ openPc' = "verifyDiscard"
  /\ UNCHANGED <<srcDir, config, env, sealVars, tamper, openKey, openManifest,
                 openBuf, openOps, labVars, concVars>>

\* the scratch directory is removed; the call returns { ok, expected,
\* computed, mode } or rethrows
VerifyHashDiscard ==
  /\ openPc = "verifyDiscard"
  /\ env' = [env EXCEPT !.scratch = None]
  /\ openPc' = IF openErr = "none" THEN "verified" ELSE "verifyFailed"
  /\ UNCHANGED <<srcDir, config, sealVars, tamper, openKey, openManifest,
                 openBuf, openComputed, openErr, openOps, labVars, concVars>>

NextOpen ==
  \/ DecryptEnvelope
  \/ ReadManifest
  \/ DecryptCiphertext
  \/ WriteDecryptedTar
  \/ MkdirPayload
  \/ ExtractTar
  \/ RemoveDecryptedTar
  \/ VerifyPayloadHash
  \/ OpenFsFails
  \/ VerifyHashCall
  \/ VerifyHashOpen
  \/ VerifyHashCompute
  \/ VerifyHashDiscard

SpecOpen == InitOpen /\ [][NextOpen]_vars

\* ------------------------------------------------------------------------
\* Properties of computePayloadHash (SpecHash)
\* ------------------------------------------------------------------------
LabEdits == {"change", "add", "remove", "rename"}

\* C7: the payload hash is deterministic and independent of the order in
\* which walkFiles enumerates the directories: a repeated call returns the
\* digest of the first call, and every enumeration walkFiles may produce for
\* the tree yields that digest.
C7_HashIndependentOfScanOrder ==
  /\ labOp = "rehash" => labDigest2 = labDigest
  /\ labOp \in {"hashed", "rehash"} =>
       \A all \in WalkFiles(labTree, <<>>) :
         ComputePayloadHash(labTree, all) = labDigest

\* a repeated call whose enumeration differs from the first one, the first
\* one not being in sorted order
C7_Witness ==
  /\ labOp = "rehash"
  /\ labScan2 # labScan
  /\ Len(labScan) >= 2
  /\ labScan # SortRels(labScan)

Sealed == mode = "encrypted" /\ sealPc = "done"

\* the private key given to decryptEnvelope has the length of a key
OpenKeyValid == Base64Decode(openKey).len = KeyLen

\* ... and is the private half of the recipient the envelope was sealed to
OpenKeyMatches ==
  OpenKeyValid /\ Base64Decode(openKey).sk = Base64Decode(sealKey).pt

\* no plaintext of the payload in the envelope directory
NoPlaintextOnDisk == env.payload = None /\ env.tmpTar = None /\ env.decTar = None

\* C1: after a successful Seal no plaintext representation of the payload
\* remains in the envelope directory: payload/ and payload.tmp.tar do not
\* exist, payload.encrypted, manifest.json and audit.json do.
C1_NoPlaintextAfterSeal ==
  (Sealed /\ openPc = "idle") =>
    /\ env.payload = None
    /\ env.tmpTar = None
    /\ env.encrypted # None
    /\ env.manifest # None
    /\ env.audit # None

\* a seal that returned, of a payload with an image file in it
C1_Witness ==
  /\ Sealed
  /\ openPc = "idle"
  /\ tamper = {}
  /\ DicomDest(p_abdcm) \in DOMAIN sealedTree

\* C2: a failed Seal never deletes the plaintext payload: whichever of the
\* steps after the payload was assembled fails (invalid recipient key, tar,
\* write of payload.encrypted, of manifest.json or of audit.json), payload/
\* is still on disk when the operation has ended in failure.
C2_FailedSealKeepsPayload ==
  (/\ mode = "encrypted"
   /\ sealPc = "failed"
   /\ sealAt \in {"tar", "encrypt", "writeEnc", "manifest", "audit"})
    => env.payload # None

\* C3: round trip: sealing a payload tree to a recipient and opening the
\* envelope with the recipient's private key succeeds and restores payload/
\* with the same relative paths and bytes; the digest recomputed over the
\* restored tree is the digest of the original tree and the stored
\* security.payload_hash.
C3_RoundTrip ==
  (/\ Sealed
   /\ tamper = {}
   /\ OpenKeyMatches
   /\ openPc \in {"done", "failed"}
   /\ openErr # "FileSystemError")
    => /\ openPc = "done"
       /\ env.payload = Some(sealedTree)
       /\ openComputed = sealHash
       /\ The(env.manifest).payload_hash = Some(openComputed)
       /\ \A all \in WalkFiles(The(env.payload), <<>>) :
            ComputePayloadHash(The(env.payload), all) = sealHash

\* an envelope of two image files and the metadata document, opened
C3_Witness ==
  /\ Sealed
  /\ tamper = {}
  /\ OpenKeyMatches
  /\ openPc = "done"
  /\ Cardinality(DOMAIN sealedTree) = 3
  /\ env.payload = Some(sealedTree)

\* the digest decryptEnvelope would recompute over payload/ is the stored one
PayloadMatchesManifest ==
  /\ The(env.manifest).payload_hash # None
  /\ \A all \in WalkFiles(The(env.payload), <<>>) :
       Some(ComputePayloadHash(The(env.payload), all))
         = The(env.manifest).payload_hash

\* C4 as stated: on every envelope directory on which Open returns
\* successfully the digest recomputed over the extracted payload/ equals the
\* manifest's security.payload_hash.
C4_Original == openPc = "done" => PayloadMatchesManifest

\* C4, amended: on every envelope directory whose manifest carries a
\* security.payload_hash and on which Open returns successfully, the digest
\* recomputed over the extracted payload/ equals it; Open fails with the
\* mismatch only after a decryption that succeeded.
C4_OpenVerifiesStoredHash ==
  /\ (openPc = "done" /\ The(env.manifest).payload_hash # None)
       => PayloadMatchesManifest
  /\ (openPc = "failed" /\ openErr = "IntegrityViolation")
       => /\ openBuf # <<>>
          /\ Some(openComputed) # The(env.manifest).payload_hash

\* decryption succeeded, the payload was extracted, and Open failed on the
\* digest
C4_Witness ==
  /\ openPc = "failed"
  /\ openErr = "IntegrityViolation"
  /\ openBuf # <<>>
  /\ env.payload = Some(sealedTree)

\* C5: a failed Open leaves no partial artifact: when decryptEnvelope has
\* ended in failure (missing metadata, invalid lengths, authentication
\* failure, unparsable archive or digest mismatch) the envelope directory
\* holds no payload/ and no payload.decrypted.tar.
C5_FailedOpenLeavesNothing ==
  (/\ Sealed
   /\ openPc = "failed"
   /\ openErr \in {"MissingEncryptionMetadata", "InvalidKey", "InvalidMaterial",
                   "AuthenticationFailed", "ArchiveCorrupt", "IntegrityViolation"})
    => env.payload = None /\ env.decTar = None

\* the manifest still carries every field of security.encryption, each of
\* its length
WellFormed ==
  tamper \cap {"short_iv", "short_auth_tag", "short_ephemeral_public_key",
               "no_iv", "no_auth_tag", "no_ephemeral_public_key",
               "no_encryption"} = {}

\* what Open must do on a bad key or an altered envelope: fail with an
\* authentication error, and neither return nor write any plaintext
FailsUnauthenticated ==
  /\ openPc \notin {"writeTar", "mkdir", "extract", "rmTar", "verify", "done"}
  /\ openBuf = <<>>
  /\ NoPlaintextOnDisk
  /\ (openPc = "failed" /\ openErr # "FileSystemError")
       => openErr = "AuthenticationFailed"

\* C6 as stated: with a private key that does not match the recipient, or
\* with any bit of payload.encrypted, iv, auth_tag or ephemeral_public_key
\* altered after sealing, Open fails with an authentication error and
\* leaves no plaintext.
C6_Original ==
  (/\ Sealed
   /\ OpenKeyValid
   /\ openPc # "idle"
   /\ WellFormed
   /\ \/ ~OpenKeyMatches
      \/ tamper \cap {"ciphertext", "iv", "auth_tag", "ephemeral_public_key",
                      "ephemeral_public_key_msb"} # {})
    => FailsUnauthenticated

\* C6, amended: with a private key that does not match the recipient, or
\* with any bit of payload.encrypted, iv or auth_tag, or any bit of
\* ephemeral_public_key other than the most significant bit of its last
\* byte, altered after sealing, Open fails with an authentication error and
\* neither returns nor writes any plaintext.
C6_AuthenticatedAllOrNothing ==
  (/\ Sealed
   /\ OpenKeyValid
   /\ openPc # "idle"
   /\ WellFormed
   /\ \/ ~OpenKeyMatches
      \/ tamper \cap {"ciphertext", "iv", "auth_tag", "ephemeral_public_key"} # {})
    => FailsUnauthenticated

\* the right key on an envelope whose ciphertext had a bit flipped
C6_Witness ==
  /\ Sealed
  /\ OpenKeyMatches
  /\ tamper = {"ciphertext"}
  /\ openPc = "failed"
  /\ openErr = "AuthenticationFailed"

\* the source directory of the end-to-end scenario
ScenarioSrc ==
  [p \in {p_abdcm, p_notes} |->
     IF p = p_abdcm THEN File(Bytes100, TRUE) ELSE File(Text, TRUE)]

s_abdcm == n_a \o <<SLASH>> \o n_bdcm                          \* "a/b.dcm"
s_dicom_abdcm == s_dicom \o <<SLASH>> \o s_abdcm               \* "dicom/a/b.dcm"

PlainDone == mode = "plain" /\ sealPc = "done"

\* C9 as stated: packaging a/b.dcm (100 bytes) and notes.txt as a plaintext
\* envelope records the SHA-256 of "a/b.dcm\n" followed by the 100 bytes.
C9_Original ==
  (PlainDone /\ srcDir = ScenarioSrc) =>
    The(env.manifest).payload_hash = Some(Sha256Label(s_abdcm \o <<NL>> \o Bytes100))

\* C9, amended: packaging a/b.dcm (100 bytes) and notes.txt as a plaintext
\* envelope records the SHA-256 of "dicom/a/b.dcm\n", the 100 bytes,
\* "metadata.json\n" and the bytes of payload/metadata.json.
C9_ScenarioDigest ==
  (PlainDone /\ srcDir = ScenarioSrc) =>
    The(env.manifest).payload_hash =
      Some(Sha256Label(s_dicom_abdcm \o <<NL>> \o Bytes100
                       \o s_metadata \o <<NL>> \o sealMeta))

\* the scenario packaged
C9_Witness ==
  /\ PlainDone
  /\ srcDir = ScenarioSrc
  /\ openPc = "idle"
  /\ env.manifest # None

\* the last segment of r ends, after at least one character, in ext,
\* whatever the case of its letters
HasExtension(r, ext) ==
  LET name == r[Len(r)]
  IN /\ Len(name) > Len(ext)
     /\ ToLower(SubSeq(name, Len(name) - Len(ext) + 1, Len(name))) = ext

\* the file qualifies: extension .dcm or .dicom, or DICM read at offset 128
Qualifies(r) ==
  \/ HasExtension(r, s_dcm)
  \/ HasExtension(r, s_dicomExt)
  \/ /\ srcDir[r].readable
     /\ Len(srcDir[r].bytes) >= MagicOffset + MagicLen
     /\ SubSeq(srcDir[r].bytes, MagicOffset + 1, MagicOffset + MagicLen) = s_DICM

\* C10: payload assembly copies exactly the qualifying files: the file at r
\* in the source directory is at payload/dicom/r, with the same bytes, if
\* and only if its extension is .dcm or .dicom (whatever the case) or DICM
\* is read at its offset 128; nothing else is in payload/dicom.
C10_CopiesExactlyQualifying ==
  PlainDone =>
    LET payload == The(env.payload)
    IN /\ \A r \in DOMAIN srcDir :
            /\ Qualifies(r) <=> DicomDest(r) \in DOMAIN payload
            /\ DicomDest(r) \in DOMAIN payload
                 => payload[DicomDest(r)] = srcDir[r].bytes
       /\ DOMAIN payload \subseteq
            {DicomDest(r) : r \in DOMAIN srcDir} \cup {p_metadata}

\* a file taken for its signature next to one left out
C10_Witness ==
  /\ PlainDone
  /\ DOMAIN srcDir = {<<n_raw>>, p_notes}
  /\ DicomDest(<<n_raw>>) \in DOMAIN The(env.payload)
  /\ DicomDest(p_notes) \notin DOMAIN The(env.payload)

\* ------------------------------------------------------------------------
\* Key material, lengths and missing fields (Spec)
\* ------------------------------------------------------------------------
\* the ephemeral secret key of the Seal and the symmetric key derived from it
EphemeralSecrets ==
  LET eph == KeyPair("E1")
  IN {eph.secretKey, Hkdf(ScalarMult(eph.secretKey, Base64Decode(sealKey)))}

EncryptionFields == {"ephemeral_public_key", "iv", "auth_tag"}

\* C13: the sender's ephemeral private key is never persisted: in every
\* state during and after a Seal, manifest.json holds under
\* security.encryption only the algorithm, the ephemeral public key, the iv
\* and the tag, none of them the ephemeral secret key or the derived
\* symmetric key; encryptTar returns only the ciphertext and these three
\* values; and the stored key is the public half of the ephemeral pair.
C13_EphemeralSecretNeverStored ==
  /\ sealEnc.ok =>
       /\ DOMAIN sealEnc = {"ok", "ops", "ciphertext", "result"}
       /\ DOMAIN sealEnc.result = EncryptionFields
       /\ \A f \in EncryptionFields :
            Base64Decode(sealEnc.result[f]) \notin EphemeralSecrets
  /\ (mode = "encrypted" /\ env.manifest # None /\ The(env.manifest).encryption # None)
       => LET e == The(The(env.manifest).encryption)
          IN /\ DOMAIN e = EncryptionFields \cup {"algorithm"}
             /\ \A f \in EncryptionFields :
                  e[f] # None => Base64Decode(The(e[f])) \notin EphemeralSecrets
             /\ tamper = {} =>
                  e.ephemeral_public_key = Some(Base64Encode(KeyPair("E1").publicKey))
  /\ mode = "encrypted" =>
       /\ env.audit \subseteq {AuditDoc}
       /\ env.manifest # None => DOMAIN The(env.manifest) = {"payload_hash", "encryption"}

\* a Seal that returned, its manifest carrying the ephemeral public key
C13_Witness ==
  /\ Sealed
  /\ tamper = {}
  /\ openPc = "idle"
  /\ sealOps = <<"keyPair", "scalarMult", "hkdf", "randomBytes", "cipher">>
  /\ The(The(env.manifest).encryption).ephemeral_public_key # None

\* the recipient public key given to the Seal does not decode to 32 bytes
SealKeyInvalid == mode = "encrypted" /\ Base64Decode(sealKey).len # KeyLen

\* C14: Seal rejects a recipient public key that does not decode to exactly
\* 32 bytes: encryptTar fails with an invalid-key error having called no
\* primitive (no key pair generated, nothing encrypted), the call never gets
\* past it, and neither payload.encrypted nor manifest.json is written.
C14_SealRejectsShortKey ==
  SealKeyInvalid =>
    /\ sealPc \notin {"writeEnc", "rmTar", "rmPayload", "manifest", "audit", "done"}
    /\ sealOps = <<>>
    /\ sealEnc = NoEnc
    /\ env.encrypted = None
    /\ env.manifest = None
    /\ (sealPc = "failed" /\ sealAt = "encrypt" /\ sealErr # "FileSystemError")
         => sealErr = "InvalidKey"

\* the payload was assembled and archived, and encryptTar rejected the key
C14_Witness ==
  /\ SealKeyInvalid
  /\ sealPc = "failed"
  /\ sealErr = "InvalidKey"
  /\ sealAt = "encrypt"
  /\ env.tmpTar # None
  /\ DicomDest(p_abdcm) \in DOMAIN The(env.payload)

\* a length decryptToBuffer checks is wrong, every field being there
LengthsInvalid ==
  /\ tamper \cap {"no_iv", "no_auth_tag", "no_ephemeral_public_key",
                  "no_encryption"} = {}
  /\ \/ ~OpenKeyValid
     \/ tamper \cap {"short_iv", "short_auth_tag",
                     "short_ephemeral_public_key"} # {}

Range(q) == {q[i] : i \in 1..Len(q)}

\* C15: Open validates all lengths first: if the ephemeral public key is not
\* 32 bytes, the iv not 12, the tag not 16 or the private key not 32, Open
\* fails (unless reading a file failed first) with an invalid-key error for
\* the keys and an invalid-material error for iv and tag, having made no key
\* agreement, derived no key, attempted no decryption and written nothing.
C15_LengthsCheckedFirst ==
  (Sealed /\ LengthsInvalid /\ openPc # "idle") =>
    /\ openPc \in {"manifest", "decrypt", "failed"}
    /\ Range(openOps) \subseteq {"readManifest", "readEncrypted"}
    /\ openBuf = <<>>
    /\ NoPlaintextOnDisk
    /\ (openPc = "failed" /\ openErr # "FileSystemError") =>
         /\ openErr \in {"InvalidKey", "InvalidMaterial"}
         /\ openErr = "InvalidKey" <=>
              (~OpenKeyValid \/ "short_ephemeral_public_key" \in tamper)

\* the right key on an envelope whose iv lost a byte
C15_Witness ==
  /\ Sealed
  /\ OpenKeyMatches
  /\ tamper = {"short_iv"}
  /\ openPc = "failed"
  /\ openErr = "InvalidMaterial"
  /\ openOps = <<"readManifest", "readEncrypted">>

\* manifest.json has no security.encryption, or one without one of its
\* three values
EncryptionMissing ==
  \/ mode = "plain"
  \/ tamper \cap {"no_iv", "no_auth_tag", "no_ephemeral_public_key",
                  "no_encryption"} # {}

\* C16: Open on an envelope whose manifest lacks security.encryption, or
\* lacks ephemeral_public_key, iv or auth_tag, fails with a
\* missing-encryption-metadata error (unless reading manifest.json failed):
\* it never reads payload.encrypted, the failure is the first step of the
\* call, and that step leaves the envelope directory as it was.
C16_MissingMetadataFailsFirst ==
  /\ []((sealPc = "done" /\ EncryptionMissing /\ openPc # "idle") =>
         /\ openPc \in {"manifest", "failed"}
         /\ "readEncrypted" \notin Range(openOps)
         /\ (openPc = "failed" /\ openErr # "FileSystemError")
              => openErr = "MissingEncryptionMetadata")
  /\ [][(openErr' = "MissingEncryptionMetadata" /\ openErr # openErr')
          => /\ env' = env
             /\ openOps = <<>>
             /\ openOps' = <<"readManifest">>
             /\ sealPc = "done" /\ EncryptionMissing]_vars

\* Open failed on a sealed envelope whose manifest lost its iv
C16_Witness ==
  /\ Sealed
  /\ tamper = {"no_iv"}
  /\ openPc = "failed"
  /\ openErr = "MissingEncryptionMetadata"
  /\ env.encrypted # None

\* ------------------------------------------------------------------------
\* Unreadable files; payload/ next to payload.encrypted (Spec)
\* ------------------------------------------------------------------------
\* C17: best-effort scan: a file of the source directory that cannot be
\* opened is treated as non-qualifying, whatever its name: the copy loop
\* skips it, and the packaging never ends in the failure of its copy.
C17_UnreadableFileExcluded ==
  /\ (sealPc = "copy" /\ sealTodo # <<>> /\ ~srcDir[Head(sealTodo)].readable)
       => ~IsLikelyDicom(Head(sealTodo), srcDir[Head(sealTodo)])
  /\ ~(sealPc = "failed" /\ sealAt = "copyFile")

\* a packaging or an Open has run to its end, and none is under way
AtRest ==
  /\ sealPc = "done"
  /\ openPc \in {"idle", "done"}

\* C18: payload/ and payload.encrypted are mutually exclusive: after any
\* sequence of completed operations the envelope directory never holds
\* both.
C18_PayloadXorEncrypted ==
  AtRest => ~(env.payload # None /\ env.encrypted # None)

\* ------------------------------------------------------------------------
\* Two invocations (SpecConc)
\* ------------------------------------------------------------------------
BothSealed == \A k \in Callers : cCall[k].op = "seal" /\ cCall[k].pc = "done"

\* security.payload_hash and security.encryption as recorded by invocation k
RecordedHash(k) == The(cDisk[cCall[k].dir].manifest).payload_hash
RecordedEncryption(k) == The(The(cDisk[cCall[k].dir].manifest).encryption)

\* the source directory holds a file taken for DICOM
DicomFound == \E q \in DOMAIN cCfg.src : IsLikelyDicom(q, cCfg.src[q])

C12_FreshKeyAndIvPerSeal ==
  /\ cRng = Cardinality({k \in Callers : cCall[k].enc.ok})
  /\ \A k \in Callers : cCall[k].enc.ok =>
       /\ \E n \in 1..cRng :
            /\ cCall[k].enc.result.ephemeral_public_key
                 = Base64Encode(KeyPair(RandomKey(n)).publicKey)
            /\ cCall[k].enc.result.iv
                 = Base64Encode([len |-> IvLen, v |-> RandomIv(n)])
       /\ \A j \in Callers \ {k} :
            /\ cCall[j].enc.ok =>
                 /\ cCall[j].enc.result.ephemeral_public_key
                      # cCall[k].enc.result.ephemeral_public_key
                 /\ cCall[j].enc.result.iv # cCall[k].enc.result.iv
                 /\ cCall[j].enc.ciphertext.key # cCall[k].enc.ciphertext.key
            /\ cCall[j].dir # cCall[k].dir =>
                 /\ cDisk[cCall[j].dir].encrypted # Some(cCall[k].enc.ciphertext)
                 /\ cDisk[cCall[j].dir].manifest # None =>
                      RecordedEncryption(j).ephemeral_public_key
                        # Some(cCall[k].enc.result.ephemeral_public_key)

\* two seals whose steps interleaved, both returned
C12_Witness ==
  /\ BothSealed
  /\ cOverlap
  /\ cRng = 2
  /\ cCall[1].enc.result.ephemeral_public_key
       = Base64Encode(KeyPair(RandomKey(2)).publicKey)

\* buildFromDicom rejects when it is the only invocation: no source
\* directory, a manifest that does not conform to the schema loaded, or a
\* rethrown schema loading error
FailsAlone ==
  \/ cCfg.missing
  \/ cCfg.schemas \in {"plain", "withId"} /\ ~cCfg.valid
  \/ cCfg.schemas = "unloadable" /\ cCfg.schemaPath = "validation failed"

\* invocation k ended as it ends when it runs alone
AsAlone(k) ==
  LET c == cCall[k]
      dir == cDisk[c.dir]
  IN IF c.op = "open"
     THEN /\ c.pc = "done"
          /\ \E id \in {<<"EA", "ivA">>, <<"EB", "ivB">>} :
               dir = [SealedDir(OldTree, OldScan, ConcKey, id[1], id[2])
                        EXCEPT !.payload = Some(OldTree)]
     ELSE IF FailsAlone
     THEN /\ c.pc = "failed"
          /\ c.err = "JmixError"
          /\ dir = EmptyDir
     ELSE /\ c.pc = "done"
          /\ LET tree == PayloadOf(cCfg.src, c.meta)
             IN \E all \in WalkFiles(tree, <<>>) : \E n \in 1..2 :
                  dir = SealedDir(tree, all, ConcKey, RandomKey(n), RandomIv(n))

\* C19: two invocations that target different envelope directories are
\* independent: under every interleaving of their steps, on the same
\* JmixBuilder instance too, each ends with the result and the envelope
\* directory it ends with when run alone.
C19_InvocationsIndependent ==
  cCall[1].dir # cCall[2].dir =>
    \A k \in Callers : Finished(k) => AsAlone(k)

\* both invocations are decryptEnvelope on the same envelope directory
SameEnvelope ==
  /\ \A k \in Callers : cCall[k].op = "open"
  /\ cCall[1].dir = cCall[2].dir

\* C20: no locking per envelope directory: two Opens of one envelope
\* directory use the same payload.decrypted.tar and payload/ and their steps
\* interleave freely.  Called one after the other both succeed and leave
\* payload/ restored and no archive; a failure (tar.x finding the archive
\* removed by the other Open) arises only when their steps interleaved.
C20_OpensFailOnlyInterleaved ==
  SameEnvelope =>
    /\ (~cOverlap /\ \A j \in Callers : ~Running(j)) =>
         \A k \in Callers : Finished(k) => AsAlone(k)
    /\ \A k \in Callers : cCall[k].pc = "failed" =>
         /\ cOverlap
         /\ cCall[k].err = "ENOENT"
         /\ cCall[k].buf # <<>>

\* two interleaved Opens of one envelope: one returned, the other failed on
\* the archive the first had removed
C20_Witness ==
  /\ SameEnvelope
  /\ cOverlap
  /\ cCall[1].pc = "done"
  /\ cCall[2].pc = "failed"
  /\ cCall[2].err = "ENOENT"
  /\ cDisk[cCall[1].dir].payload = Some(OldTree)

\* ------------------------------------------------------------------------
\* The recipient's side (SpecOpen)
\* ------------------------------------------------------------------------
\* verifyPayloadHash is under way, between its call and its return
Verifying == openPc \in {"verifyOpen", "verifyHash", "verifyDiscard"}

\* verifyPayloadHash returned its result or failed
VerifyEnded == openPc \in {"verified", "verifyFailed"}

\* security.payload_hash of the manifest verifyPayloadHash read
ExpectedHash == The(openManifest).payload_hash

\* C21: verifyPayloadHash on a sealed envelope opens the payload into a
\* scratch location, never into the envelope directory, hashes what it
\* unpacked there, and once it has returned its result or failed the scratch
\* payload is gone: after matching digests, after a mismatch, after a failed
\* decryption and after a failure while hashing.
C21_ScratchDiscarded ==
  /\ [](/\ VerifyEnded => env.scratch = None
        /\ (openPc = "verified" /\ openBuf # <<>>) =>
             \E all \in WalkFiles(sealedTree, <<>>) :
               openComputed = ComputePayloadHash(sealedTree, all)
        /\ (openPc = "verifyFailed" /\ openBuf = <<>>) =>
             (openKey # ConcPriv \/ "ciphertext" \in tamper))
  /\ [][Verifying =>
          /\ env'.payload = env.payload
          /\ env'.encrypted = env.encrypted
          /\ env'.manifest = env.manifest
          /\ env'.decTar = env.decTar]_vars

\* verifyPayloadHash returned ok = false for a sealed envelope whose
\* security.payload_hash was replaced: the payload went through the scratch
\* directory, which is gone
C21_Witness ==
  /\ openPc = "verified"
  /\ openBuf # <<>>
  /\ ExpectedHash # Some(openComputed)
  /\ env.payload = None
  /\ env.scratch = None

\* ------------------------------------------------------------------------
\* A source directory that contributes no file
\* ------------------------------------------------------------------------
\* no file of the source directory is taken for DICOM
NoFilesContributed == \A q \in DOMAIN srcDir : ~IsLikelyDicom(q, srcDir[q])

\* C22 as stated: sealing a source directory that contributes zero files
\* records the hash of the empty byte stream, over an empty payload tree.
C22_Original ==
  (NoFilesContributed /\ mode = "encrypted" /\ sealPc = "done") =>
    /\ sealedTree = EmptyTree
    /\ sealHash = Sha256Label(<<>>)

\* C22, amended: sealing a source directory that contributes zero files
\* succeeds with a payload tree that holds metadata.json alone; the digest
\* recorded is that of "metadata.json", a newline and the bytes of
\* metadata.json (no special case: the empty tree itself hashes to the empty
\* byte stream), and opening the sealed envelope restores that one-file tree
\* and its digest check passes.
C22_MetadataOnlyPayload ==
  /\ ComputePayloadHash(EmptyTree, <<>>) = Sha256Label(<<>>)
  /\ (NoFilesContributed /\ mode = "encrypted") =>
       /\ sealPc = "failed" => sealErr # "FileSystemError" \/ sealAt # "copyFile"
       /\ sealPc = "done" =>
            /\ sealedTree = [p \in {p_metadata} |-> sealMeta]
            /\ sealHash = Sha256Label(s_metadata \o <<NL>> \o sealMeta)
            /\ sealHash # Sha256Label(<<>>)
       /\ (openPc = "done" /\ tamper = {}) =>
            /\ env.payload = Some(sealedTree)
            /\ openComputed = sealHash

\* an empty source directory sealed and opened again
C22_Witness ==
  /\ DOMAIN srcDir = {}
  /\ mode = "encrypted"
  /\ openPc = "done"
  /\ tamper = {}
  /\ env.payload = Some([p \in {p_metadata} |-> sealMeta])

\* ------------------------------------------------------------------------
\* buildFromDicom rejecting, schema validation (SpecConc)
\* ------------------------------------------------------------------------
\* a validation of invocation k rejected
SomeValidationRejected(k) ==
  \E n \in SchemaNames : cCall[k].task[n] \in {"invalid", "threw"}

\* C23: when the source directory is missing, or a schema validation
\* rejects, buildFromDicom throws JmixError and returns no envelope, and the
\* packaging call that began with it has created no envelope directory and
\* no file: whatever the other invocation does meanwhile.
C23_FailedBuildCreatesNothing ==
  \A k \in Callers : cCall[k].op = "seal" =>
    /\ (Finished(k) /\ (cCfg.missing \/ SomeValidationRejected(k))) =>
         (cCall[k].pc = "failed" /\ cCall[k].err = "JmixError")
    /\ (cCall[k].pc = "failed" /\ cCall[k].err = "JmixError") =>
         /\ cCfg.missing \/ SomeValidationRejected(k)
         /\ cDisk[cCall[k].dir] = EmptyDir
         /\ cCall[k].tree = EmptyTree
         /\ cCall[k].enc = NoEnc
         /\ cCall[k].manifest = None

\* packaging from a missing source directory has failed; nothing was created
C23_Witness ==
  /\ cCfg.missing
  /\ cCall[1].op = "seal"
  /\ cCall[1].pc = "failed"
  /\ cCall[1].err = "JmixError"
  /\ cDisk[cCall[1].dir] = EmptyDir

\* the schema file of a kind was read, parsed and compiled
SchemaLoaded == cCfg.schemas \in {"plain", "withId"}

\* C24: schema validation is skippable: when the schema file of a kind is
\* not accessible or cannot be loaded or compiled, validate returns without
\* throwing, whatever the document; it throws only when the schema was loaded
\* and the document does not conform; and validateEnvelope rejects exactly
\* when one of its validations rejects.
C24_ValidationSkippable ==
  \A k \in Callers : cCall[k].op = "seal" =>
    /\ \A n \in SchemaNames :
         /\ ~SchemaLoaded => cCall[k].task[n] \notin {"invalid", "threw"}
         /\ cCall[k].task[n] \in {"invalid", "threw"} =>
              (SchemaLoaded /\ ~cCfg.valid)
    /\ (Finished(k) /\ ~cCfg.missing) =>
         (cCall[k].pc = "failed" <=> SomeValidationRejected(k))

\* ------------------------------------------------------------------------
\* The manifest of a sealed envelope
\* ------------------------------------------------------------------------
\* C25: after a successful Seal, manifest.json carries security.payload_hash,
\* the digest computed over the plaintext payload before it was archived, and
\* security.encryption with algorithm "AES-256-GCM" and ephemeral_public_key,
\* iv and auth_tag the base64 of exactly 32, 12 and 16 bytes; they are the
\* values of the encryption whose ciphertext is in payload.encrypted.
C25_ManifestRecordsEncryption ==
  (mode = "encrypted" /\ sealPc = "done" /\ tamper = {}) =>
    LET m == The(env.manifest)
        e == The(m.encryption)
        c == The(env.encrypted)
    IN /\ env.manifest # None /\ m.encryption # None /\ env.encrypted # None
       /\ m.payload_hash = Some(sealHash)
       /\ \E all \in WalkFiles(sealedTree, <<>>) :
            /\ sealHash = ComputePayloadHash(sealedTree, all)
            /\ \E tarred \in WalkFiles(sealedTree, <<>>) :
                 c.pt = TarCreate(sealedTree, tarred)
       /\ e.algorithm = "AES-256-GCM"
       /\ Base64Decode(The(e.ephemeral_public_key)).len = 32
       /\ Base64Decode(The(e.iv)).len = 12
       /\ Base64Decode(The(e.auth_tag)).len = 16
       /\ The(e.ephemeral_public_key) = sealEnc.result.ephemeral_public_key
       /\ The(e.iv) = sealEnc.result.iv
       /\ The(e.auth_tag) = sealEnc.result.auth_tag
       /\ c = sealEnc.ciphertext
       /\ Base64Decode(The(e.iv)) = c.iv
       /\ Base64Decode(The(e.auth_tag)) = GcmTag(c.key, c.iv, c)
       /\ c.key = Hkdf(ScalarMult(KeyPair("E1").secretKey, Base64Decode(sealKey)))
       /\ Base64Decode(The(e.ephemeral_public_key)) = KeyPair("E1").publicKey

\* a sealed envelope of a payload with a copied file, as Seal left it
C25_Witness ==
  /\ mode = "encrypted"
  /\ sealPc = "done"
  /\ tamper = {}
  /\ openPc = "idle"
  /\ DOMAIN sealedTree # {p_metadata}
  /\ The(env.manifest).payload_hash = Some(sealHash)
  /\ The(The(env.manifest).encryption).algorithm = "AES-256-GCM"

\* ------------------------------------------------------------------------
\* decryptEnvelope and a payload/ directory that is already there
\* ------------------------------------------------------------------------
\* C26: Open unpacks into a fresh payload tree: after a successful
\* decryptEnvelope, payload/ holds exactly the files of the sealed archive,
\* same relative paths and bytes, and nothing else, even when a payload/
\* directory with other content was in the envelope directory before the call.
C26_OpensIntoFreshTree ==
  (openPc = "done" /\ "ciphertext" \notin tamper) =>
    env.payload = Some(sealedTree)

\* ------------------------------------------------------------------------
\* The order of the steps of packageEncryptedToDirectory
\* ------------------------------------------------------------------------
\* the step the packaging is at, or was at when it failed
SealStage == IF sealPc = "failed" THEN sealAt ELSE sealPc

\* payload.encrypted holds the whole ciphertext of the archive of the hashed
\* payload tree
CiphertextComplete ==
  /\ env.encrypted = Some(sealEnc.ciphertext)
  /\ \E all \in WalkFiles(sealedTree, <<>>) :
       sealEnc.ciphertext.pt = TarCreate(sealedTree, all)

\* C27: step ordering of Seal: the plaintext payload/ is deleted only after
\* payload.encrypted has been completely written, and manifest.json is
\* written only after the plaintext has been removed; so in every
\* intermediate state at least one complete representation of the payload,
\* the plaintext tree or the ciphertext, exists, and a manifest.json carrying
\* security.encryption exists only in states where payload.encrypted exists
\* and payload/ does not.
C27_SealStepOrdering ==
  /\ [](  (mode = "encrypted" /\ openPc = "idle" /\ tamper = {}) =>
            /\ SealStage \in {"tar", "encrypt", "writeEnc", "rmTar",
                              "rmPayload", "manifest", "audit", "done"} =>
                 env.payload = Some(sealedTree) \/ CiphertextComplete
            /\ (env.manifest # None /\ The(env.manifest).encryption # None) =>
                 (env.encrypted # None /\ env.payload = None) )
  /\ [][ (mode = "encrypted" /\ sealPc # "done") =>
           /\ (env.payload # None /\ env'.payload = None) => CiphertextComplete
           /\ (env.manifest = None /\ env'.manifest # None) =>
                (env.payload = None /\ CiphertextComplete) ]_vars

\* the plaintext is gone, the ciphertext is there, no manifest.json yet
C27_Witness ==
  /\ mode = "encrypted"
  /\ SealStage = "manifest"
  /\ env.payload = None
  /\ CiphertextComplete
  /\ env.manifest = None
  /\ DOMAIN sealedTree # {p_metadata}

\* ------------------------------------------------------------------------
\* The byte encoding computePayloadHash feeds to SHA-256
\* ------------------------------------------------------------------------
\* C28: the byte encoding fed to SHA-256 (for each file in sorted order: the
\* relative path, a newline, then the raw file bytes, nothing between the
\* entries) is injective over payload trees: two trees that differ in their
\* set of relative paths or in the bytes of a file give different byte
\* streams.
C28_EncodingInjective ==
  (labOp = "other" /\ labTree2 # labTree) =>
    \A all \in WalkFiles(labTree, <<>>), all2 \in WalkFiles(labTree2, <<>>) :
      HashStream(labTree, SortRels(all)) # HashStream(labTree2, SortRels(all2))

\* ------------------------------------------------------------------------
\* What the packaging leaves alone
\* ------------------------------------------------------------------------
\* C29: packaging leaves its inputs unchanged: after packageToDirectory or
\* packageEncryptedToDirectory, successful or failed, the caller's config
\* object is as it was (config.security gains neither payload_hash nor
\* encryption, although the manifest shares that object at first) and every
\* file of the source directory is still there with the same bytes.
C29_InputsUnchanged ==
  /\ [](config = CallerConfig)
  /\ [][config' = config /\ srcDir' = srcDir]_vars

\* a sealed envelope whose manifest carries both fields, from a source
\* directory with a readable file in it
C29_Witness ==
  /\ mode = "encrypted"
  /\ sealPc = "done"
  /\ tamper = {}
  /\ openPc = "idle"
  /\ The(env.manifest).payload_hash = Some(sealHash)
  /\ The(env.manifest).encryption # None
  /\ config.security.payload_hash = None
  /\ \E q \in DOMAIN srcDir : srcDir[q].readable /\ srcDir[q].bytes # <<>>

\* ------------------------------------------------------------------------
\* decryptEnvelope called again on an envelope it has opened
\* ------------------------------------------------------------------------
\* the envelope directory A after a decryptEnvelope that returned: the sealed
\* entries and the payload tree beside them
OpenedDir ==
  [SealedDir(OldTree, OldScan, ConcKey, "EA", "ivA") EXCEPT
     !.payload = Some(OldTree)]

\* the two calls did not overlap and none is under way
Serialized == ~cOverlap /\ \A j \in Callers : ~Running(j)

\* C30: Open is idempotent when serialized: decryptEnvelope called a second
\* time on the same envelope directory with the same private key, after the
\* first call has completed, succeeds again, returns the same payload path
\* and leaves the envelope directory as the first call left it: the same
\* payload/ files and bytes, payload.encrypted and manifest.json untouched,
\* no temporary tar left.
C30_OpenIdempotent ==
  /\ [](  (SameEnvelope /\ Serialized) =>
            LET d == cCall[1].dir
            IN /\ \A k \in Callers : Finished(k) =>
                    /\ cCall[k].pc = "done"
                    /\ cCall[k].computed = ComputePayloadHash(OldTree, OldScan)
                    /\ cDisk[d] = OpenedDir
               /\ (\A k \in Callers : ~Finished(k)) =>
                    cDisk[d] = SealedDir(OldTree, OldScan, ConcKey, "EA", "ivA") )
  /\ [][ SameEnvelope =>
           LET d == cCall[1].dir
           IN /\ cDisk'[d].encrypted = cDisk[d].encrypted
              /\ cDisk'[d].manifest = cDisk[d].manifest
              /\ (~cOverlap /\ \E k \in Callers : cCall[k].pc = "done") =>
                   /\ cDisk'[d].payload = Some(OldTree)
                   /\ \A k \in Callers : cCall'[k].pc # "failed" ]_vars

\* the second of two serialized calls has returned
C30_Witness ==
  /\ SameEnvelope
  /\ Serialized
  /\ \A k \in Callers : cCall[k].pc = "done"
  /\ cDisk[cCall[1].dir] = OpenedDir

====
